---- MODULE Spec2Model ----
(***************************************************************************)
(* Guest-image ingestion core of touchHLE:                                 *)
(*   - the POSIX I/O shim          (src/libc/posix_io.rs)                  *)
(*   - the IPA bundle mount        (src/fs/bundle.rs)                      *)
(* Each subsystem has its own specification over the shared variables.     *)
(***************************************************************************)
EXTENDS Integers, Sequences, FiniteSets, TLC

VARIABLES
    files,      \* posix_io::State::files : Vec<Option<PosixFileHostObject>>
    next_id,    \* identity given to the next GuestFile the filesystem hands out
    last,       \* the guest call that ran last, with its arguments and outcome
    mon_reuse,  \* progress of the call pattern  open; open; close(fd1); open
    mon_seek,   \* progress of the call pattern  lseek(fd,0,SEEK_CUR); read(fd); lseek(fd,0,SEEK_CUR)
    root,       \* FsNodeBuilder::root, as a map from component paths to nodes
    pending,    \* deliveries not yet handed to the builder
    delivered,  \* deliveries handed to the builder, in order
    b_fatal,    \* the builder (or the bundle code driving it) panicked
    zip,        \* the entries of the ZIP archive, in index order
    bundle,     \* the BundleData::Zip (or the error) that open_ipa returned
    fs_node,    \* Option of the tree returned by into_fs_node
    ipa_files,  \* the IpaFile objects IpaFileRef::open has returned, oldest first
    zip_pos,    \* offset of the single file reader the ZipArchive holds
    ipa_last,   \* the bundle call that ran last, with its inputs and outcome
    archive_borrow, \* the holders of a live RefMut of the RefCell around the ZipArchive
    macho_file, \* the Mach-O file as far as load_from_bytes has read it
    into_mem,   \* the guest memory handed to load_from_bytes
    loader,     \* the local variables of load_from_bytes
    load_result \* where load_from_bytes stands, and what it returned

vars == <<files, next_id, last, mon_reuse, mon_seek,
          root, pending, delivered, b_fatal, zip, bundle, fs_node,
          ipa_files, zip_pos, ipa_last, archive_borrow,
          macho_file, into_mem, loader, load_result>>

ioVars     == <<files, next_id, last, mon_reuse, mon_seek>>
buildVars  == <<root, pending, delivered, b_fatal>>
bundleVars == <<zip, bundle, fs_node, ipa_files, zip_pos, ipa_last, archive_borrow>>
machoVars  == <<macho_file, into_mem, loader, load_result>>

(***************************************************************************)
(* Bounds                                                                  *)
(***************************************************************************)
MaxSlots == 2     \* the FD table is not grown past this many slots
MaxOpens == 3     \* successful opens in one run
MaxPos   == 2     \* largest file offset and file length explored
MaxDeliveries == 3  \* deliveries handed to one FsNodeBuilder
MaxEntries    == 3  \* entries of one ZIP archive
MaxHandles    == 2  \* IpaFile objects opened from one archive
MaxCommands   == 3  \* load commands of one Mach-O file

(***************************************************************************)
(* Generic helpers                                                         *)
(***************************************************************************)
None    == [tag |-> "None"]
Some(x) == [tag |-> "Some", v |-> x]
IsSome(o) == o.tag = "Some"
IsNone(o) == o.tag = "None"

Min(a, b) == IF a <= b THEN a ELSE b
Max(a, b) == IF a >= b THEN a ELSE b

I32Max == 2147483647
I32Min == -2147483647 - 1

\* The set of bit positions set in the two's complement i32 x.
Pow2(k) == 2 ^ k
Bits(x) ==
    LET mag == IF x >= 0 THEN x ELSE (x + I32Max) + 1
    IN  {k \in 0..30 : (mag \div Pow2(k)) % 2 = 1} \cup (IF x < 0 THEN {31} ELSE {})
\* a & b == 0
AndIsZero(a, b) == Bits(a) \cap Bits(b) = {}
\* a & m for a non-negative mask m below 2^31
RECURSIVE SumPow(_)
SumPow(S) == IF S = {} THEN 0
             ELSE LET k == CHOOSE k \in S : TRUE IN Pow2(k) + SumPow(S \ {k})
BitAnd(a, m) == SumPow(Bits(a) \cap Bits(m))
BitOr(a, b)  == SumPow(Bits(a) \cup Bits(b))

(***************************************************************************)
(* posix_io.rs : constants                                                 *)
(***************************************************************************)
STDERR_FILENO      == 2
NORMAL_FILENO_BASE == STDERR_FILENO + 1

O_RDONLY   == 0
O_WRONLY   == 1
O_RDWR     == 2
O_ACCMODE  == BitOr(BitOr(O_RDWR, O_WRONLY), O_RDONLY)
O_NONBLOCK == 4
O_APPEND   == 8
O_NOFOLLOW == 256
O_CREAT    == 512
O_TRUNC    == 1024
O_EXCL     == 2048

SEEK_SET == 0
SEEK_CUR == 1
SEEK_END == 2

\* the union of the flags `open` accepts in its first assertion
OpenFlagMaskBits ==
    Bits(O_ACCMODE) \cup Bits(O_NONBLOCK) \cup Bits(O_APPEND) \cup Bits(O_NOFOLLOW)
        \cup Bits(O_CREAT) \cup Bits(O_TRUNC) \cup Bits(O_EXCL)

(***************************************************************************)
(* posix_io.rs : fd <-> slot index.  Slot indices are 0-based as in the    *)
(* code; files[i + 1] is slot i.  A result is Ok(v) or Panicked.           *)
(***************************************************************************)
Ok(v)    == [ok |-> TRUE, val |-> v]
Panicked == [ok |-> FALSE, val |-> 0]

\* An index no Vec reaches: what `as usize` makes of a negative i32.
WrappedIdx == I32Max

file_idx_to_fd(idx) ==
    IF idx > I32Max THEN Panicked                              \* try_from(idx).unwrap()
    ELSE IF idx > I32Max - NORMAL_FILENO_BASE THEN Panicked    \* checked_add(..).unwrap()
    ELSE Ok(idx + NORMAL_FILENO_BASE)

\* variant: the subtraction saturates at slot 0
fd_to_file_idx_saturating(fd) ==
    IF fd < NORMAL_FILENO_BASE THEN Ok(0) ELSE Ok(fd - NORMAL_FILENO_BASE)

fd_to_file_idx(fd) ==
    IF fd < I32Min + NORMAL_FILENO_BASE THEN Panicked          \* checked_sub(..).unwrap()
    ELSE IF fd - NORMAL_FILENO_BASE < 0 THEN Ok(WrappedIdx)    \* `as usize` of a negative i32
    ELSE Ok(fd - NORMAL_FILENO_BASE)

\* State::file_for_fd : Option of the slot's host object (the unwrap inside
\* fd_to_file_idx panics before the lookup).
file_for_fd(fs, fd) ==
    LET idx == fd_to_file_idx(fd)
    IN  IF ~idx.ok THEN Panicked
        ELSE IF idx.val >= Len(fs) THEN Ok(None)               \* get_mut(idx) = None
        ELSE Ok(fs[idx.val + 1])                               \* and_then(as_mut)

\* variant: the scan runs from the back (rposition)
position_none_last(fs) ==
    IF \E i \in 1..Len(fs) : IsNone(fs[i])
    THEN Some((CHOOSE i \in 1..Len(fs) :
                 IsNone(fs[i]) /\ \A j \in (i + 1)..Len(fs) : IsSome(fs[j])) - 1)
    ELSE None

\* iter().position(|f| f.is_none())
position_none(fs) ==
    IF \E i \in 1..Len(fs) : IsNone(fs[i])
    THEN Some((CHOOSE i \in 1..Len(fs) :
                 IsNone(fs[i]) /\ \A j \in 1..(i - 1) : IsSome(fs[j])) - 1)
    ELSE None

(***************************************************************************)
(* posix_io.rs : open                                                      *)
(***************************************************************************)
\* GuestOpenOptions::new()
NewOptions == [read |-> FALSE, write |-> FALSE, append |-> FALSE,
               create |-> FALSE, truncate |-> FALSE]

\* variant: the O_EXCL assertion is missing
open_asserts_no_excl(flags) ==
    LET b == Bits(flags)
    IN  /\ b \subseteq OpenFlagMaskBits
        /\ b \cap Bits(O_NOFOLLOW) = {}

\* The three assertions at the top of `open`; TRUE when all of them pass.
open_asserts(flags) ==
    LET b == Bits(flags)
    IN  /\ b \subseteq OpenFlagMaskBits
        /\ b \cap Bits(O_NOFOLLOW) = {}
        /\ b \cap Bits(O_EXCL) = {}

\* The translation of the flags into GuestOpenOptions.
open_options(flags) ==
    LET acc == BitAnd(flags, O_ACCMODE)
        o1  == IF acc = O_RDONLY THEN [NewOptions EXCEPT !.read = TRUE]
               ELSE IF acc = O_WRONLY THEN [NewOptions EXCEPT !.write = TRUE]
               ELSE [NewOptions EXCEPT !.read = TRUE, !.write = TRUE]
        o2  == IF ~AndIsZero(flags, O_APPEND) THEN [o1 EXCEPT !.append = TRUE] ELSE o1
        o3  == IF ~AndIsZero(flags, O_CREAT) THEN [o2 EXCEPT !.create = TRUE] ELSE o2
        o4  == IF ~AndIsZero(flags, O_TRUNC) THEN [o3 EXCEPT !.truncate = TRUE] ELSE o3
    IN  IF acc \notin {O_RDONLY, O_WRONLY, O_RDWR} THEN Panicked   \* _ => panic!()
        ELSE Ok(o4)

\* The Ok arm of `open`: store the host object in the first empty slot, or
\* push it; yields the new table and the slot index.
open_store(fs, host_object) ==
    LET free == position_none(fs)
    IN  IF IsSome(free)
        THEN [files |-> [fs EXCEPT ![free.v + 1] = Some(host_object)], idx |-> free.v]
        ELSE [files |-> Append(fs, Some(host_object)), idx |-> Len(fs)]

\* variant: a failed open still takes a slot
open_result_reserve(fs, res) ==
    IF res.ok
    THEN LET st == open_store(fs, [file |-> res.val])
         IN  [files |-> st.files, fd |-> file_idx_to_fd(st.idx)]
    ELSE [files |-> Append(fs, None), fd |-> Ok(-1)]

\* The match on the filesystem's result: the new table and the returned value.
open_result(fs, res) ==
    IF res.ok
    THEN LET st == open_store(fs, [file |-> res.val])
         IN  [files |-> st.files, fd |-> file_idx_to_fd(st.idx)]
    ELSE [files |-> fs, fd |-> Ok(-1)]

\* What the filesystem collaborator hands back for an accepted open: a fresh
\* GuestFile positioned at 0.
NewGuestFile(id) == [id |-> id, pos |-> 0]

\* `backend` is the collaborator's answer in this call: "none" when it was
\* not reached, "ok" or "err" otherwise.
NoCall == [op |-> "none", fd |-> 0, flags |-> 0, path_utf8 |-> TRUE, offset |-> 0,
           whence |-> 0, ret |-> 0, fatal |-> FALSE, fs_called |-> FALSE,
           backend |-> "none", options |-> NewOptions]
Answer(ok) == IF ok THEN "ok" ELSE "err"

\* Monitor of  open; open; close(fd1); open  (successful calls, back to back).
\* stage 0: nothing; 1: one open (a); 2: two opens (a then b); 3: then close(a);
\* 4: then a third open, which returned b.
MonReuseIdle == [stage |-> 0, a |-> 0, b |-> 0]
MonReuseOpen(m, fd) ==
    IF m.stage = 1 THEN [stage |-> 2, a |-> m.a, b |-> fd]
    ELSE IF m.stage \in {2, 4} THEN [stage |-> 2, a |-> m.b, b |-> fd]
    ELSE IF m.stage = 3 THEN [stage |-> 4, a |-> m.a, b |-> fd]
    ELSE [stage |-> 1, a |-> fd, b |-> 0]
MonReuseClose(m, fd) ==
    IF m.stage = 2 /\ fd = m.a THEN [stage |-> 3, a |-> m.a, b |-> m.b] ELSE MonReuseIdle

\* Monitor of  lseek(fd,0,SEEK_CUR) = p; read(fd) = k; lseek(fd,0,SEEK_CUR)
\* with nothing else on fd in between, for the fd whose pattern started first.
\* stage 1: exp = p; stage 2: exp = p + k; stage 3: the closing lseek ran (and
\* starts the pattern again, like stage 1).
MonSeekIdle == [fd |-> 0, stage |-> 0, exp |-> 0]
\* another call on fd
MonSeekOther(m, fd) == IF m.fd = fd THEN MonSeekIdle ELSE m
\* lseek(fd, 0, SEEK_CUR) returned ret
MonSeekCur(m, fd, ret) ==
    IF m.fd = fd /\ m.stage = 2 THEN [fd |-> fd, stage |-> 3, exp |-> ret]
    ELSE IF m.fd = fd \/ m.stage \in {0, 3} THEN [fd |-> fd, stage |-> 1, exp |-> ret]
    ELSE m
\* read(fd) returned k
MonSeekRead(m, fd, k) ==
    IF m.fd = fd /\ m.stage \in {1, 3} THEN [fd |-> fd, stage |-> 2, exp |-> m.exp + k]
    ELSE MonSeekOther(m, fd)

\* the flag words the guest passes in this model
FlagArgs  == {O_RDONLY, O_WRONLY, O_RDWR, 3,
              O_RDONLY + O_NONBLOCK, O_WRONLY + O_APPEND, O_RDWR + O_CREAT + O_TRUNC,
              O_WRONLY + O_NONBLOCK + O_APPEND, O_RDWR + O_NONBLOCK + O_CREAT + O_TRUNC,
              O_NOFOLLOW, O_EXCL + O_CREAT + O_WRONLY, 16, 4096 + O_RDWR, -1, I32Min}
\* open_asserts and open_options, tabulated over FlagArgs
FlagTable == [fl \in FlagArgs |-> [asserts |-> open_asserts(fl), opts |-> open_options(fl)]]

open(path_utf8, flags) ==
    /\ ~last.fatal
    /\ LET opts == FlagTable[flags].opts
           call == [NoCall EXCEPT !.op = "open", !.flags = flags, !.path_utf8 = path_utf8]
       IN  IF ~FlagTable[flags].asserts \/ ~opts.ok \/ ~path_utf8
           THEN \* assert!, panic!() or cstr_at_utf8(path).unwrap()
                /\ last' = [call EXCEPT !.fatal = TRUE]
                /\ UNCHANGED <<files, next_id, mon_reuse, mon_seek>>
           ELSE \E fs_ok \in BOOLEAN :           \* env.fs.open_with_options(..)
                LET res == IF fs_ok THEN Ok(NewGuestFile(next_id)) ELSE Panicked
                    r   == open_result(files, res)
                IN  /\ fs_ok => (next_id <= MaxOpens /\ Len(r.files) <= MaxSlots)
                    /\ files' = r.files
                    /\ next_id' = IF fs_ok THEN next_id + 1 ELSE next_id
                    /\ last' = [call EXCEPT !.fs_called = TRUE, !.options = opts.val,
                                            !.backend = Answer(fs_ok),
                                            !.ret = r.fd.val, !.fatal = ~r.fd.ok]
                    /\ mon_reuse' = IF fs_ok /\ r.fd.ok THEN MonReuseOpen(mon_reuse, r.fd.val)
                                    ELSE MonReuseIdle
                    /\ mon_seek' = IF fs_ok /\ r.fd.ok THEN MonSeekOther(mon_seek, r.fd.val)
                                   ELSE mon_seek
    /\ UNCHANGED <<buildVars, bundleVars, machoVars>>

(***************************************************************************)
(* The GuestFile collaborator (crate::fs): a host file or a cursor over a  *)
(* byte buffer.  The length of the file belongs to the collaborator and is *)
(* an input of each call; read and write move the offset by the byte count *)
(* they report.                                                            *)
(***************************************************************************)
\* bytes a read of `size` can deliver at the current offset
GuestFile_avail(f, len, size) == Min(size, Max(0, len - f.pos))
GuestFile_read(f, k)  == [f EXCEPT !.pos = f.pos + k]
GuestFile_write(f, len, append, k) ==
    [f EXCEPT !.pos = (IF append THEN len ELSE f.pos) + k]
\* SeekFrom::Start / Current / End; a negative target is an error
GuestFile_seek(f, len, from) ==
    LET target == IF from.kind = "Start" THEN from.off
                  ELSE IF from.kind = "Current" THEN f.pos + from.off
                  ELSE len + from.off
    IN  IF target < 0 THEN Panicked ELSE Ok(target)

(***************************************************************************)
(* posix_io.rs : read, write, lseek, close                                 *)
(***************************************************************************)
\* write through the `&mut PosixFileHostObject` that file_for_fd returned
set_file(fs, fd, f) == [fs EXCEPT ![fd_to_file_idx(fd).val + 1] = Some([file |-> f])]

Fatal(call) ==
    /\ last' = [call EXCEPT !.fatal = TRUE]
    /\ UNCHANGED <<files, next_id, mon_reuse, mon_seek>>

\* what the collaborator can answer
LenArgs == {0, MaxPos}

\* variant: a successful read reports the requested size
read_ret_size(ok, bytes_read, size) == IF ok THEN size ELSE -1

\* the value `read` hands to the guest: the two arms of the match on the result
read_ret(ok, bytes_read, size) == IF ok THEN bytes_read ELSE -1

read(fd, size) ==
    /\ ~last.fatal
    /\ LET fo   == file_for_fd(files, fd)
           call == [NoCall EXCEPT !.op = "read", !.fd = fd]
       IN  IF ~fo.ok \/ IsNone(fo.val)
           THEN Fatal(call)                       \* file_for_fd(fd).unwrap()
           ELSE LET f == fo.val.v.file
                IN  \E len \in LenArgs, ok \in BOOLEAN :          \* file.file.read(..)
                    \E k \in 0 .. (IF ok THEN GuestFile_avail(f, len, size) ELSE 0) :
                    /\ files' = IF ok THEN set_file(files, fd, GuestFile_read(f, k)) ELSE files
                    /\ last' = [call EXCEPT !.ret = read_ret(ok, k, size),
                                            !.backend = Answer(ok)]
                    /\ mon_seek' = IF read_ret(ok, k, size) >= 0
                                   THEN MonSeekRead(mon_seek, fd, read_ret(ok, k, size))
                                   ELSE MonSeekOther(mon_seek, fd)
                    /\ mon_reuse' = MonReuseIdle
                    /\ UNCHANGED next_id
    /\ UNCHANGED <<buildVars, bundleVars, machoVars>>

write(fd, size) ==
    /\ ~last.fatal
    /\ LET fo   == file_for_fd(files, fd)
           call == [NoCall EXCEPT !.op = "write", !.fd = fd]
       IN  IF ~fo.ok \/ IsNone(fo.val)
           THEN Fatal(call)                       \* file_for_fd(fd).unwrap()
           ELSE LET f == fo.val.v.file
                IN  \E len \in LenArgs, append \in BOOLEAN, ok \in BOOLEAN :  \* file.file.write(..)
                    \E k \in 0 .. (IF ok THEN size ELSE 0) :
                    LET f2 == GuestFile_write(f, len, append, k)
                    IN  /\ f2.pos <= MaxPos
                        /\ files' = IF ok THEN set_file(files, fd, f2) ELSE files
                        /\ last' = [call EXCEPT !.ret = IF ok THEN k ELSE -1,
                                                !.backend = Answer(ok)]
                        /\ mon_seek' = MonSeekOther(mon_seek, fd)
                        /\ mon_reuse' = MonReuseIdle
                        /\ UNCHANGED next_id
    /\ UNCHANGED <<buildVars, bundleVars, machoVars>>

\* variant: SEEK_END is not handled
lseek_from_no_end(offset, whence) ==
    IF whence = SEEK_SET
    THEN IF offset < 0 THEN Panicked ELSE Ok([kind |-> "Start", off |-> offset])
    ELSE IF whence = SEEK_CUR THEN Ok([kind |-> "Current", off |-> offset])
    ELSE Panicked

\* the match on `whence`
lseek_from(offset, whence) ==
    IF whence = SEEK_SET
    THEN IF offset < 0 THEN Panicked                 \* offset.try_into().unwrap()
         ELSE Ok([kind |-> "Start", off |-> offset])
    ELSE IF whence = SEEK_CUR THEN Ok([kind |-> "Current", off |-> offset])
    ELSE IF whence = SEEK_END THEN Ok([kind |-> "End", off |-> offset])
    ELSE Panicked                                    \* panic!("Unsupported \"whence\" ...")

lseek(fd, offset, whence) ==
    /\ ~last.fatal
    /\ LET fo   == file_for_fd(files, fd)
           from == lseek_from(offset, whence)
           call == [NoCall EXCEPT !.op = "lseek", !.fd = fd, !.offset = offset,
                                  !.whence = whence]
       IN  IF ~fo.ok \/ IsNone(fo.val)
           THEN Fatal(call)                       \* file_for_fd(fd).unwrap()
           ELSE IF ~from.ok
           THEN Fatal(call)
           ELSE LET f == fo.val.v.file
                IN  \E len \in LenArgs :                          \* file.file.seek(from)
                    LET res == GuestFile_seek(f, len, from.val)
                    IN  /\ res.ok => res.val <= MaxPos
                        /\ files' = IF res.ok
                                    THEN set_file(files, fd, [f EXCEPT !.pos = res.val])
                                    ELSE files
                        /\ last' = [call EXCEPT !.ret = IF res.ok THEN res.val ELSE -1,
                                                !.backend = Answer(res.ok)]
                        /\ mon_seek' =
                             IF res.ok /\ whence = SEEK_CUR /\ offset = 0
                             THEN MonSeekCur(mon_seek, fd, res.val)
                             ELSE MonSeekOther(mon_seek, fd)
                        /\ mon_reuse' = MonReuseIdle
                        /\ UNCHANGED next_id
    /\ UNCHANGED <<buildVars, bundleVars, machoVars>>

\* variant: the slot is removed from the Vec (Vec::remove) instead of emptied
close_files_remove(fs, idx, sync_ok) ==
    SubSeq(fs, 1, idx) \o SubSeq(fs, idx + 2, Len(fs))
\* variant: the file is put back when sync_all fails
close_files_keep(fs, idx, sync_ok) ==
    IF sync_ok THEN [fs EXCEPT ![idx + 1] = None] ELSE fs

\* files[idx].take() on an occupied slot, then the file is synced and dropped
close_files(fs, idx, sync_ok) == [fs EXCEPT ![idx + 1] = None]

close(fd) ==
    /\ ~last.fatal
    /\ LET idx  == fd_to_file_idx(fd)
           call == [NoCall EXCEPT !.op = "close", !.fd = fd]
       IN  IF ~idx.ok
           THEN Fatal(call)                       \* checked_sub(..).unwrap()
           ELSE IF idx.val >= Len(files)
           THEN Fatal(call)                       \* files[idx]: index out of bounds
           ELSE IF IsNone(files[idx.val + 1])
           THEN Fatal(call)                       \* .take().unwrap()
           ELSE \E sync_ok \in BOOLEAN :          \* file.file.sync_all()
                /\ files' = close_files(files, idx.val, sync_ok)
                /\ last' = [call EXCEPT !.ret = IF sync_ok THEN 0 ELSE -1,
                                        !.backend = Answer(sync_ok)]
                /\ mon_seek' = MonSeekOther(mon_seek, fd)
                /\ mon_reuse' = MonReuseClose(mon_reuse, fd)
                /\ UNCHANGED next_id
    /\ UNCHANGED <<buildVars, bundleVars, machoVars>>

(***************************************************************************)
(* Specification of the POSIX I/O shim                                     *)
(***************************************************************************)
FdArgs    == {I32Min, 2} \cup (NORMAL_FILENO_BASE .. (NORMAL_FILENO_BASE + MaxSlots))
LseekArgs == {<<0, SEEK_SET>>, <<1, SEEK_SET>>, <<-1, SEEK_SET>>,
              <<0, SEEK_CUR>>, <<1, SEEK_CUR>>, <<-1, SEEK_CUR>>,
              <<0, SEEK_END>>, <<-1, SEEK_END>>, <<0, 3>>}
SizeArgs  == 0 .. MaxPos

IdleBuild  == root = << >> /\ pending = {} /\ delivered = << >> /\ b_fatal = FALSE
NoIpaCall  == [op |-> "none", host |-> "", io_err_at |-> 0, index |-> 0, io |-> "",
               handle |-> 0, ret |-> << >>]
IdleBundle == /\ zip = << >>
              /\ bundle = [state |-> "unopened", bundle_path |-> << >>, msg |-> ""]
              /\ fs_node = None
              /\ ipa_files = << >> /\ zip_pos = 0 /\ ipa_last = NoIpaCall
              /\ archive_borrow = {}
\* the file before it is parsed, a guest memory nothing was loaded into, the
\* locals as load_from_bytes initialises them, and the call not yet made
NoFile     == [kind |-> "", cputype |-> "", is_bigend |-> FALSE, is_64bit |-> FALSE,
               commands |-> << >>]
NewMemory  == [reserved |-> << >>, written |-> << >>]
NewLoader  == [all_sections |-> << >>, sym_tab_info |-> None,
               entry_point_addr |-> None, dynamic_libraries |-> << >>,
               indirect_undef_symbols |-> << >>, external_relocations |-> << >>]
NotLoaded  == [state |-> "idle", msg |-> "", macho |-> << >>]
IdleMachO  == /\ macho_file = NoFile /\ into_mem = NewMemory
              /\ loader = NewLoader /\ load_result = NotLoaded
IdleIo     == /\ files = <<>>
              /\ next_id = 1
              /\ last = NoCall
              /\ mon_reuse = MonReuseIdle
              /\ mon_seek = MonSeekIdle

\* State::default(): an empty table
Init == IdleIo /\ IdleBuild /\ IdleBundle /\ IdleMachO

Next ==
    \/ \E u \in BOOLEAN, fl \in FlagArgs : open(u, fl)
    \/ \E fd \in FdArgs, n \in SizeArgs : read(fd, n)
    \/ \E fd \in FdArgs, n \in SizeArgs : write(fd, n)
    \/ \E fd \in FdArgs, a \in LseekArgs : lseek(fd, a[1], a[2])
    \/ \E fd \in FdArgs : close(fd)

Spec == Init /\ [][Next]_vars

(***************************************************************************)
(* Strings and paths.  A string is a sequence of tokens; "/" and ".." are  *)
(* tokens of their own, so that prefix, suffix and split act on the tokens *)
(* as the str methods act on the characters.                               *)
(***************************************************************************)
\* str::strip_prefix
strip_prefix(str, prefix) ==
    IF Len(prefix) <= Len(str) /\ SubSeq(str, 1, Len(prefix)) = prefix
    THEN Some(SubSeq(str, Len(prefix) + 1, Len(str)))
    ELSE None
\* str::strip_suffix
strip_suffix(str, suffix) ==
    IF Len(suffix) <= Len(str) /\ SubSeq(str, Len(str) - Len(suffix) + 1, Len(str)) = suffix
    THEN Some(SubSeq(str, 1, Len(str) - Len(suffix)))
    ELSE None
SlashAt(str) == {i \in 1..Len(str) : str[i] = "/"}
FirstOf(S) == CHOOSE i \in S : \A j \in S : i <= j
LastOf(S)  == CHOOSE i \in S : \A j \in S : i >= j
\* str::split_once('/')
split_once(str) ==
    IF SlashAt(str) = {} THEN None
    ELSE LET i == FirstOf(SlashAt(str))
         IN  Some(<<SubSeq(str, 1, i - 1), SubSeq(str, i + 1, Len(str))>>)
\* str::split('/'): the parts between the separators, empty parts included
RECURSIVE split(_)
split(str) ==
    IF SlashAt(str) = {} THEN <<str>>
    ELSE LET i == FirstOf(SlashAt(str))
         IN  <<SubSeq(str, 1, i - 1)>> \o split(SubSeq(str, i + 1, Len(str)))

\* GuestPath::parent_and_file_name: the path up to the last separator and the
\* final component
parent_and_file_name(path) ==
    IF SlashAt(path) = {} THEN None
    ELSE LET i == LastOf(SlashAt(path))
         IN  Some([parent |-> SubSeq(path, 1, i - 1), file_name |-> SubSeq(path, i + 1, Len(path))])

DotDot == <<"..">>

\* variant: no component is taken to be `..`
is_dotdot_never(part) == FALSE

\* the comparison of assert_ne!(part, "..") and assert_ne!(file_name, "..")
is_dotdot(part) == part = DotDot

(***************************************************************************)
(* bundle.rs : FsNodeBuilder.  An FsNode tree is a map from component      *)
(* paths (sequences of names) to nodes; << >> is the root, and the children *)
(* of a directory are the entries one component longer.                    *)
(***************************************************************************)
\* FsNode::dir()
DirNode == [kind |-> "dir", ref |-> 0]
\* FsNode::bundle_zip_file(IpaFileRef { archive, index })
FileNode(index) == [kind |-> "file", ref |-> index]

\* FsNodeBuilder::new
NewBuilderRoot == (<< >> :> DirNode)

IsPrefix(p, q) == Len(p) <= Len(q) /\ SubSeq(q, 1, Len(p)) = p
\* children.insert(name, node) at component path at: the node and whatever was
\* below the old entry are replaced
insert_child(tree, at, node) ==
    LET keep == {q \in DOMAIN tree : ~IsPrefix(at, q)}
    IN  [q \in keep \cup {at} |-> IF q = at THEN node ELSE tree[q]]

\* variant: the directory is inserted afresh even when the entry exists
entry_or_insert_dir_always(tree, at) == insert_child(tree, at, DirNode)

\* children.entry(part).or_insert_with(FsNode::dir)
entry_or_insert_dir(tree, at) ==
    IF at \in DOMAIN tree THEN tree ELSE insert_child(tree, at, DirNode)

\* The loop of find_or_make_directory over the parts still to walk; `current`
\* is the component path of the node reached.
RECURSIVE walk_parts(_, _, _)
walk_parts(tree, current, parts) ==
    IF parts = << >> THEN [ok |-> TRUE, tree |-> tree, current |-> current]
    ELSE LET part == Head(parts)
         IN  IF part = << >> THEN walk_parts(tree, current, Tail(parts))
             ELSE IF is_dotdot(part)                            \* assert_ne!(part, "..")
             THEN [ok |-> FALSE, tree |-> tree, current |-> current]
             ELSE IF tree[current].kind # "dir"                 \* panic!("expected directory")
             THEN [ok |-> FALSE, tree |-> tree, current |-> current]
             ELSE LET next == Append(current, part)
                  IN  walk_parts(entry_or_insert_dir(tree, next), next, Tail(parts))

find_or_make_directory(tree, path) == walk_parts(tree, << >>, split(path))

\* FsNodeBuilder::add_file on the tree; ok = FALSE when it panics
add_file_to(tree, path, node) ==
    LET pf == parent_and_file_name(path)
    IN  IF IsNone(pf) THEN [ok |-> FALSE, tree |-> tree]              \* .unwrap()
        ELSE IF is_dotdot(pf.v.file_name) THEN [ok |-> FALSE, tree |-> tree]  \* assert_ne!
        ELSE LET dir == find_or_make_directory(tree, pf.v.parent)
             IN  IF ~dir.ok THEN [ok |-> FALSE, tree |-> dir.tree]
                 ELSE IF dir.tree[dir.current].kind # "dir"     \* panic!("expected directory")
                 THEN [ok |-> FALSE, tree |-> dir.tree]
                 ELSE [ok |-> TRUE,
                       tree |-> insert_child(dir.tree, Append(dir.current, pf.v.file_name), node)]

\* FsNodeBuilder::add_directory on the tree
add_directory_to(tree, path) ==
    LET dir == find_or_make_directory(tree, path)
    IN  [ok |-> dir.ok, tree |-> dir.tree]

\* A delivery is [kind, path, node]: add_file(path, node) or add_directory(path).
add_file(d) ==
    /\ ~b_fatal
    /\ d \in pending /\ d.kind = "file"
    /\ LET r == add_file_to(root, d.path, FileNode(d.node))
       IN  /\ root' = r.tree
           /\ b_fatal' = ~r.ok
    /\ pending' = pending \ {d}
    /\ delivered' = Append(delivered, d)
    /\ UNCHANGED <<ioVars, bundleVars, machoVars>>

add_directory(d) ==
    /\ ~b_fatal
    /\ d \in pending /\ d.kind = "dir"
    /\ LET r == add_directory_to(root, d.path)
       IN  /\ root' = r.tree
           /\ b_fatal' = ~r.ok
    /\ pending' = pending \ {d}
    /\ delivered' = Append(delivered, d)
    /\ UNCHANGED <<ioVars, bundleVars, machoVars>>

(***************************************************************************)
(* Specification of the FsNodeBuilder: a set of deliveries, handed over in *)
(* any order.                                                              *)
(***************************************************************************)
FileDelivery(path, node) == [kind |-> "file", path |-> path, node |-> node]
DirDelivery(path) == [kind |-> "dir", path |-> path, node |-> 0]

\* File paths have a separator and a non-empty last part, as the remainder of a
\* ZIP file entry below the bundle has.
Deliveries ==
    { FileDelivery(<<"/", "a">>, 1),                      \* /a
      FileDelivery(<<"/", "a">>, 2),                      \* /a, another node
      FileDelivery(<<"/", "b">>, 3),                      \* /b
      FileDelivery(<<"/", "a", "/", "b">>, 4),            \* /a/b
      FileDelivery(<<"/", "a", "/", "/", "c">>, 5),       \* /a//c
      FileDelivery(<<"a", "/", "b", "/", "c">>, 6),       \* a/b/c
      FileDelivery(<<"/", "..", "/", "a">>, 7),           \* /../a
      FileDelivery(<<"/", "b", "/", "..">>, 8),           \* /b/..
      DirDelivery(<<"/">>),                               \* /
      DirDelivery(<<"/", "a">>),                          \* /a
      DirDelivery(<<"/", "a", "/">>),                     \* /a/
      DirDelivery(<<"/", "a", "/", "b", "/">>),           \* /a/b/
      DirDelivery(<<"/", "b", "/", "c">>),                \* /b/c
      DirDelivery(<<"/", "a", "/", "..", "/">>) }         \* /a/../

DeliverySets == {S \in SUBSET Deliveries : Cardinality(S) <= MaxDeliveries}

InitBuilder ==
    /\ IdleIo /\ IdleBundle /\ IdleMachO
    /\ root = NewBuilderRoot
    /\ pending \in DeliverySets
    /\ delivered = << >>
    /\ b_fatal = FALSE

NextBuilder ==
    \/ \E d \in Deliveries : add_file(d)
    \/ \E d \in Deliveries : add_directory(d)

SpecBuilder == InitBuilder /\ [][NextBuilder]_vars

(***************************************************************************)
(* bundle.rs : BundleData.  An archive is the sequence of its entry names  *)
(* in index order.                                                         *)
(***************************************************************************)
PayloadSlash == <<"Payload", "/">>
DotApp       == <<".app">>

\* ZipFile::is_dir of the zip crate: the name ends with a separator
is_dir(name) == Len(name) > 0 /\ name[Len(name)] = "/"

\* variant: the bundle path keeps the separator that ended the component
bundle_path_of_with_slash(name) ==
    LET rest == strip_prefix(name, <<"Payload", "/">>)
    IN  IF IsNone(rest) THEN None
        ELSE LET halves == split_once(rest.v)
             IN  IF IsNone(halves) THEN None
                 ELSE LET app == strip_suffix(halves.v[1], <<".app">>)
                      IN  IF IsNone(app) THEN None
                          ELSE Some(<<"Payload", "/">> \o app.v \o <<".app", "/">>)

\* The chain strip_prefix("Payload/") . split_once('/') . strip_suffix(".app")
\* on an entry name; Some(bundle path) when all three match.
bundle_path_of(name) ==
    LET rest == strip_prefix(name, PayloadSlash)
    IN  IF IsNone(rest) THEN None
        ELSE LET halves == split_once(rest.v)
             IN  IF IsNone(halves) THEN None
                 ELSE LET app == strip_suffix(halves.v[1], DotApp)
                      IN  IF IsNone(app) THEN None
                          ELSE Some(PayloadSlash \o app.v \o DotApp)   \* format!("Payload/{name}.app")

BundleErr(msg) == [ok |-> FALSE, val |-> msg]

\* BundleData::find_bundle_path_in_archive from index i on (1-based here);
\* by_index fails at index io_err_at (0: it never fails).
RECURSIVE find_bundle_path_from(_, _, _)
find_bundle_path_from(archive, i, io_err_at) ==
    IF i > Len(archive) THEN BundleErr("no app bundle found in the IPA archive")
    ELSE IF i = io_err_at THEN BundleErr("Could not open IPA archive entry")
    ELSE IF IsSome(bundle_path_of(archive[i])) THEN Ok(bundle_path_of(archive[i]).v)
    ELSE find_bundle_path_from(archive, i + 1, io_err_at)

find_bundle_path_in_archive(archive, io_err_at) == find_bundle_path_from(archive, 1, io_err_at)

\* `bundle` is [state, bundle_path, msg]; state is "unopened", "zip" (Ok of
\* open_ipa), "err" (Err of open_ipa) or "moved" (consumed by into_fs_node).
Unopened == [state |-> "unopened", bundle_path |-> << >>, msg |-> ""]

\* BundleData::open_ipa; host is how File::open and ZipArchive::new went.
open_ipa(host, io_err_at) ==
    /\ bundle.state = "unopened"
    /\ bundle' =
         IF host = "no_file" THEN [Unopened EXCEPT !.state = "err", !.msg = "Could not open IPA file"]
         ELSE IF host = "bad_zip"
         THEN [Unopened EXCEPT !.state = "err", !.msg = "Could not open IPA archive"]
         ELSE LET r == find_bundle_path_in_archive(zip, io_err_at)
              IN  IF r.ok THEN [Unopened EXCEPT !.state = "zip", !.bundle_path = r.val]
                  ELSE [Unopened EXCEPT !.state = "err", !.msg = r.val]
    /\ ipa_last' = [NoIpaCall EXCEPT !.op = "open_ipa", !.host = host, !.io_err_at = io_err_at]
    /\ UNCHANGED <<zip, fs_node, ipa_files, zip_pos, archive_borrow, ioVars, machoVars, buildVars>>

\* the guest path of an entry: name.strip_prefix(&bundle_path)
entry_path(name, bundle_path) == strip_prefix(name, bundle_path)

\* The loop of into_fs_node from index i on, over the builder's tree.
RECURSIVE into_fs_node_from(_, _, _, _, _)
into_fs_node_from(archive, bundle_path, i, io_err_at, tree) ==
    IF i > Len(archive) THEN [ok |-> TRUE, tree |-> tree]              \* builder.build()
    ELSE IF i = io_err_at THEN [ok |-> FALSE, tree |-> tree]           \* by_index(i).unwrap()
    ELSE LET name == archive[i]
             path == entry_path(name, bundle_path)
         IN  IF IsNone(path)
             THEN into_fs_node_from(archive, bundle_path, i + 1, io_err_at, tree)
             ELSE LET r == IF is_dir(name) THEN add_directory_to(tree, path.v)
                           ELSE add_file_to(tree, path.v, FileNode(i - 1))
                  IN  IF ~r.ok THEN [ok |-> FALSE, tree |-> r.tree]
                      ELSE into_fs_node_from(archive, bundle_path, i + 1, io_err_at, r.tree)

\* Rc::new(RefCell::new(zip)): a cell nobody has borrowed
RefCell_new == {}

\* RefCell::borrow_mut: the RefMut guard is handed out when there is no live
\* borrow; None when the cell is already borrowed (the call panics)
borrow_mut(holders, who) == IF holders = {} THEN Some(holders \cup {who}) ELSE None

\* variant: the guard is still alive when the call returns
drop_guard_leaked(holders, who) == holders

\* the guard is a local of the call and is dropped when its scope ends
drop_guard(holders, who) == holders \ {who}

\* BundleData::into_fs_node for the Zip variant
into_fs_node(io_err_at) ==
    /\ bundle.state = "zip" /\ ~b_fatal
    /\ LET archive_guard == borrow_mut(RefCell_new, "into_fs_node")
           r == into_fs_node_from(zip, bundle.bundle_path, 1, io_err_at, NewBuilderRoot)
       IN  /\ fs_node' = IF r.ok THEN Some(r.tree) ELSE None
           /\ b_fatal' = ~r.ok
           /\ archive_borrow' = drop_guard(archive_guard.v, "into_fs_node")
    /\ bundle' = [bundle EXCEPT !.state = "moved"]
    /\ ipa_last' = [NoIpaCall EXCEPT !.op = "into_fs_node", !.io_err_at = io_err_at]
    /\ UNCHANGED <<zip, root, pending, delivered, ipa_files, zip_pos, ioVars, machoVars>>

(***************************************************************************)
(* Specification of the bundle mount: an archive is opened and turned into *)
(* a tree.                                                                 *)
(***************************************************************************)
EntryNames ==
    { <<"Payload", "/">>,                                             \* Payload/
      <<"Payload", "/", "F", ".app", "/">>,                           \* Payload/F.app/
      <<"Payload", "/", "F", ".app", "/", "Info">>,                   \* Payload/F.app/Info
      <<"Payload", "/", "F", ".app", "/", "d", "/">>,                 \* Payload/F.app/d/
      <<"Payload", "/", "F", ".app", "/", "d", "/", "y">>,            \* Payload/F.app/d/y
      <<"Payload", "/", "F", ".app", ".dSYM", "/", "y">>,             \* Payload/F.app.dSYM/y
      <<"Payload", "/", "G", ".app", "/", "Info">>,                   \* Payload/G.app/Info
      <<"Payload", "/", "F", ".app", "/", "..", "/", "y">>,           \* Payload/F.app/../y
      <<"iTunesArtwork">>,                                            \* iTunesArtwork
      <<"Payload", "/", "notes">> }                                   \* Payload/notes

RECURSIVE SeqsNoRep(_, _)
SeqsNoRep(S, n) ==
    IF n = 0 THEN {<< >>}
    ELSE LET shorter == SeqsNoRep(S, n - 1)
         IN  shorter \cup {Append(q, x) : q \in {r \in shorter : Len(r) = n - 1},
                                          x \in S} 
Archives == {a \in SeqsNoRep(EntryNames, MaxEntries) :
               \A i, j \in 1..Len(a) : i # j => a[i] # a[j]}

InitBundle ==
    /\ IdleIo /\ IdleBuild /\ IdleMachO
    /\ zip \in Archives
    /\ bundle = Unopened
    /\ fs_node = None
    /\ ipa_files = << >> /\ zip_pos = 0 /\ ipa_last = NoIpaCall
    /\ archive_borrow = {}

NextBundle ==
    \/ \E host \in {"ok", "no_file", "bad_zip"}, e \in 0..Len(zip) : open_ipa(host, e)
    \/ \E e \in 0..Len(zip) : into_fs_node(e)

SpecBundle == InitBundle /\ [][NextBundle]_vars

(***************************************************************************)
(* bundle.rs : IpaFileRef and IpaFile.  The archive file holds the stored  *)
(* (run-length coded) data of its entries one after the other; the         *)
(* ZipArchive reads them through one file reader, whose offset is zip_pos. *)
(***************************************************************************)
\* stored data of an entry: pairs  count, byte
EntryStored(name) ==
    CASE name = <<"Payload", "/", "F", ".app", "/", "Info">>           -> <<2, 7>>
      [] name = <<"Payload", "/", "F", ".app", "/", "d", "/", "y">>    -> <<1, 8>>
      [] name = <<"Payload", "/", "F", ".app", ".dSYM", "/", "y">>     -> <<1, 9, 1, 7>>
      [] name = <<"Payload", "/", "G", ".app", "/", "Info">>           -> <<1, 5>>
      [] OTHER -> << >>
\* what the entry holds once decompressed
EntryContent(name) ==
    CASE name = <<"Payload", "/", "F", ".app", "/", "Info">>           -> <<7, 7>>
      [] name = <<"Payload", "/", "F", ".app", "/", "d", "/", "y">>    -> <<8>>
      [] name = <<"Payload", "/", "F", ".app", ".dSYM", "/", "y">>     -> <<9, 7>>
      [] name = <<"Payload", "/", "G", ".app", "/", "Info">>           -> <<5>>
      [] OTHER -> << >>

\* the bytes of the archive file that hold entry data, in index order
RECURSIVE raw_file(_)
raw_file(archive) ==
    IF archive = << >> THEN << >>
    ELSE EntryStored(Head(archive)) \o raw_file(Tail(archive))
\* offset in the archive file of the data of the entry at (0-based) index
entry_start(archive, index) == Len(raw_file(SubSeq(archive, 1, index)))

\* decompression of stored data, as ZipFile::read_to_end delivers it
RECURSIVE inflate(_)
inflate(stored) ==
    IF Len(stored) < 2 THEN << >>
    ELSE [k \in 1..stored[1] |-> stored[2]] \o inflate(SubSeq(stored, 3, Len(stored)))

\* variant: the reader is left where the previous access ended
reader_seek_none(archive, index, pos) == pos

\* archive.by_index(index): the reader is seeked to the data of the entry
reader_seek(archive, index, pos) == entry_start(archive, index)

\* file.read_to_end(&mut buf): the stored bytes of the entry are read from the
\* reader's offset on and decompressed
read_to_end(archive, index, pos) ==
    LET raw  == raw_file(archive)
        stop == Min(pos + Len(EntryStored(archive[index + 1])), Len(raw))
    IN  [buf |-> inflate(SubSeq(raw, pos + 1, stop)), pos |-> Max(pos, stop)]

\* IpaFile { file: Cursor::new(buf) }
NewIpaFile(index, buf) == [index |-> index, buf |-> buf, pos |-> 0]

\* IpaFileRef::open of the ref with this index; io is how the archive reads go
IpaFileRef_open(index, io) ==
    /\ ~b_fatal /\ IsSome(fs_node)
    /\ \E q \in DOMAIN fs_node.v : fs_node.v[q] = FileNode(index)
    /\ Len(ipa_files) < MaxHandles
    /\ LET archive == borrow_mut(archive_borrow, "IpaFileRef_open")
       IN  IF IsNone(archive)                                         \* already borrowed: panic
           THEN /\ b_fatal' = TRUE
                /\ ipa_last' = [NoIpaCall EXCEPT !.op = "IpaFileRef_open", !.index = index,
                                                 !.io = "already_borrowed"]
                /\ UNCHANGED <<ipa_files, zip_pos, archive_borrow>>
           ELSE /\ ipa_last' = [NoIpaCall EXCEPT !.op = "IpaFileRef_open", !.index = index,
                                                 !.io = io]
                /\ archive_borrow' = drop_guard(archive.v, "IpaFileRef_open")
                /\ IF index >= Len(zip) \/ io = "by_index_err"       \* both arms panic
                   THEN /\ b_fatal' = TRUE
                        /\ UNCHANGED <<ipa_files, zip_pos>>
                   ELSE LET start == reader_seek(zip, index, zip_pos)
                            r     == read_to_end(zip, index, start)
                        IN  IF io = "read_err"                        \* read_to_end(..).unwrap()
                            THEN /\ b_fatal' = TRUE
                                 /\ zip_pos' = start
                                 /\ UNCHANGED ipa_files
                            ELSE /\ b_fatal' = FALSE
                                 /\ zip_pos' = r.pos
                                 /\ ipa_files' = Append(ipa_files, NewIpaFile(index, r.buf))
    /\ UNCHANGED <<zip, bundle, fs_node, root, pending, delivered, ioVars, machoVars>>

\* <IpaFile as Read>::read with a buffer of n bytes: Cursor::read
IpaFile_read(h, n) ==
    /\ ~b_fatal /\ h \in 1..Len(ipa_files)
    /\ LET f == ipa_files[h]
           k == Min(n, Max(Len(f.buf) - f.pos, 0))
       IN  /\ ipa_files' = [ipa_files EXCEPT ![h].pos = f.pos + k]
           /\ ipa_last' = [NoIpaCall EXCEPT !.op = "IpaFile_read", !.handle = h, !.io = "ok",
                                            !.ret = SubSeq(f.buf, f.pos + 1, f.pos + k)]
    /\ UNCHANGED <<zip, bundle, fs_node, zip_pos, archive_borrow, buildVars, ioVars, machoVars>>

\* <IpaFile as Seek>::seek: Cursor::seek; from is <<variant, offset>>
IpaFile_seek(h, from) ==
    /\ ~b_fatal /\ h \in 1..Len(ipa_files)
    /\ LET f    == ipa_files[h]
           base == CASE from[1] = "Start"   -> 0
                     [] from[1] = "End"     -> Len(f.buf)
                     [] from[1] = "Current" -> f.pos
           to   == base + from[2]
       IN  /\ to <= MaxPos + 1
           /\ ipa_files' = IF to < 0 THEN ipa_files ELSE [ipa_files EXCEPT ![h].pos = to]
           /\ ipa_last' = [NoIpaCall EXCEPT !.op = "IpaFile_seek", !.handle = h,
                                            !.io = IF to < 0 THEN "err" ELSE "ok",
                                            !.ret = <<to>>]
    /\ UNCHANGED <<zip, bundle, fs_node, zip_pos, archive_borrow, buildVars, ioVars, machoVars>>

\* archives whose bundle holds several files
IpaArchives ==
    { << <<"Payload", "/", "F", ".app", "/">>,
         <<"Payload", "/", "F", ".app", "/", "Info">>,
         <<"Payload", "/", "F", ".app", "/", "d", "/", "y">> >>,
      << <<"Payload", "/", "F", ".app", "/", "d", "/", "y">>,
         <<"Payload", "/", "F", ".app", ".dSYM", "/", "y">>,
         <<"Payload", "/", "F", ".app", "/", "Info">> >> }
SeekArgs == {<<"Start", 0>>, <<"Start", 1>>, <<"Start", 3>>, <<"Current", 1>>,
             <<"Current", -1>>, <<"End", 0>>, <<"End", -1>>}
IoOutcomes == {"ok", "by_index_err", "read_err"}

InitIpaFile ==
    /\ IdleIo /\ IdleBuild /\ IdleMachO
    /\ zip \in IpaArchives
    /\ bundle = Unopened
    /\ fs_node = None
    /\ ipa_files = << >> /\ zip_pos = 0 /\ ipa_last = NoIpaCall
    /\ archive_borrow = {}

NextIpaFile ==
    \/ \E host \in {"ok", "no_file", "bad_zip"}, e \in 0..Len(zip) : open_ipa(host, e)
    \/ \E e \in 0..Len(zip) : into_fs_node(e)
    \/ \E index \in 0..(MaxEntries - 1), io \in IoOutcomes : IpaFileRef_open(index, io)
    \/ \E h \in 1..MaxHandles, n \in 0..MaxPos : IpaFile_read(h, n)
    \/ \E h \in 1..MaxHandles, from \in SeekArgs : IpaFile_seek(h, from)

SpecIpaFile == InitIpaFile /\ [][NextIpaFile]_vars

(***************************************************************************)
(* mach_o.rs : MachO::load_from_bytes.  The loader reads the header, then  *)
(* one load command after the other, then builds the section records.      *)
(* File quantities wider than 32 bits are pairs  hi * 2^32 + lo.           *)
(***************************************************************************)
U64(hi, lo) == [hi |-> hi, lo |-> lo]

\* variant: the narrowing keeps the low half
try_into_u32_truncating(v) == Some(v.lo)

\* u32::try_from: None when the value does not fit
try_into_u32(v) == IF v.hi = 0 THEN Some(v.lo) ELSE None

\* Memory::NULL_PAGE_SIZE
NULL_PAGE_SIZE == 4096

\* the bytes of the file: segment data at 0..7, the indirect symbol table at
\* 8..23 (four entries), the external relocations at 24..55 (four entries)
bytes ==
    <<11, 12, 13, 14,    21, 22, 23, 24,
      1, 0, 0, 0,    0, 0, 0, 0,    2, 0, 0, 0,    0, 0, 0, 64,
      16, 0, 0, 0,   1, 0, 0, 12,
      20, 0, 0, 0,   0, 0, 0, 12,
      24, 1, 0, 0,   2, 0, 0, 4,
      28, 0, 0, 0,   9, 0, 0, 12>>

\* Symbol of the mach_object crate
Sym(kind, name, entry) == [kind |-> kind, name |-> name, entry |-> entry]
\* the nlist records of the file by file offset: a table of five symbols at
\* 100, one of two at 200, one of one at 300
nlist ==
    100 :> Sym("Defined", Some("start"), U64(0, 4660)) @@
    112 :> Sym("Undefined", Some("_malloc"), U64(0, 0)) @@
    124 :> Sym("Undefined", Some("_free"), U64(0, 0)) @@
    136 :> Sym("Undefined", None, U64(0, 0)) @@
    148 :> Sym("Debug", Some("start"), U64(0, 99)) @@
    200 :> Sym("Undefined", Some("start"), U64(0, 77)) @@
    212 :> Sym("Undefined", Some("_exit"), U64(0, 0)) @@
    300 :> Sym("Defined", Some("start"), U64(1, 4660))

\* variant: the range is taken from the start of the file
slice_from_start(b, off, n) ==
    IF off > Len(b) \/ n > Len(b) - off THEN None
    ELSE Some(SubSeq(b, 1, n))

\* &bytes[off..][..n]: None when the range leaves the file (the index panics)
slice(b, off, n) ==
    IF off > Len(b) \/ n > Len(b) - off THEN None
    ELSE Some(SubSeq(b, off + 1, off + n))

\* u32::from_le_bytes
from_le_bytes(b) == b[1] + 256 * b[2] + 65536 * b[3] + 16777216 * b[4]

\* SymbolIter::next with the cursor at file offset off
sym_at(off) == IF off \in DOMAIN nlist THEN Some(nlist[off]) ELSE None

\* get_sym_by_idx; info is (symoff, nsyms, stroff, strsize)
get_sym_by_idx(idx, info) ==
    IF idx >= info.nsyms THEN None
    ELSE sym_at(info.symoff + idx * 12)

\* the name when the symbol is  Some(Symbol::Undefined { name: Some(n), .. })
undef_name(sym) ==
    IF IsSome(sym) /\ sym.v.kind = "Undefined" /\ IsSome(sym.v.name)
    THEN Some(sym.v.name.v) ELSE None

\* Memory::reserve
reserve(mem, addr, size) == [mem EXCEPT !.reserved = Append(@, <<addr, size>>)]
\* into_mem.bytes_at_mut(Ptr::from_bits(addr), n).copy_from_slice(src)
copy_into(mem, addr, src) ==
    LET to == {addr + k : k \in 0..(Len(src) - 1)}
    IN  [mem EXCEPT !.written =
            [a \in DOMAIN @ \cup to |-> IF a \in to THEN src[a - addr + 1] ELSE @[a]]]

Running == [state |-> "running", msg |-> "", macho |-> << >>]
Err(msg) == [state |-> "err", msg |-> msg, macho |-> << >>]
Panic == [state |-> "panic", msg |-> "", macho |-> << >>]
OkMachO(m) == [state |-> "ok", msg |-> "", macho |-> m]

\* the match on the parsed OFile
file_kind_check(kind) ==
    CASE kind = "MachFile" -> Running
      [] kind = "FatFile"  -> Panic       \* unimplemented!("Fat binary support ...")
      [] OTHER             -> Err("Unexpected Mach-O file kind: not an executable")

\* The head of load_from_bytes: OFile::parse and the checks of the header.
load_from_bytes(kind, cputype, is_bigend, is_64bit) ==
    /\ load_result.state = "idle"
    /\ macho_file' = [NoFile EXCEPT !.kind = kind, !.cputype = cputype,
                                    !.is_bigend = is_bigend, !.is_64bit = is_64bit]
    /\ load_result' =
         IF kind = "unparseable" THEN Err("Could not parse Mach-O file")
         ELSE IF file_kind_check(kind).state # "running" THEN file_kind_check(kind)
         ELSE IF cputype # "CPU_TYPE_ARM" THEN Err("Executable is not for an ARM CPU!")
         ELSE IF is_bigend THEN Err("Executable is not little-endian!")
         ELSE IF is_64bit THEN Err("Executable is not 32-bit!")
         ELSE Running
    /\ loader' = NewLoader
    /\ UNCHANGED <<into_mem, ioVars, buildVars, bundleVars>>

\* the loop takes the next command of the file
NextCommand(cmd) ==
    /\ load_result.state = "running"
    /\ Len(macho_file.commands) < MaxCommands
    /\ macho_file' = [macho_file EXCEPT !.commands = Append(@, cmd)]
    /\ UNCHANGED <<ioVars, buildVars, bundleVars>>

\* variant: only __PAGEZERO is left out
load_me_linkedit(segname, vmaddr, vmsize, filesize) ==
    CASE segname = "__PAGEZERO" ->
            IF vmaddr = 0 /\ vmsize = NULL_PAGE_SIZE /\ filesize = 0 THEN "no" ELSE "assert"
      [] OTHER -> "yes"

\* the match on segname; "assert" when an assertion of the __PAGEZERO arm fails
load_me(segname, vmaddr, vmsize, filesize) ==
    CASE segname = "__LINKEDIT" -> "no"
      [] segname = "__PAGEZERO" ->
            IF vmaddr = 0 /\ vmsize = NULL_PAGE_SIZE /\ filesize = 0 THEN "no" ELSE "assert"
      [] OTHER -> "yes"

\* LoadCommand::Segment
Segment(cmd) ==
    /\ cmd.cmd = "Segment"
    /\ NextCommand(cmd)
    /\ LET vmaddr   == try_into_u32(cmd.vmaddr)
           vmsize   == try_into_u32(cmd.vmsize)
           filesize == try_into_u32(cmd.filesize)
       IN  IF IsNone(vmaddr) \/ IsNone(vmsize) \/ IsNone(filesize)       \* .unwrap()
           THEN load_result' = Panic /\ UNCHANGED <<into_mem, loader>>
           ELSE LET lm == load_me(cmd.segname, vmaddr.v, vmsize.v, filesize.v)
                    reserved == reserve(into_mem, vmaddr.v, vmsize.v)
                    src == slice(bytes, cmd.fileoff, filesize.v)
                IN  IF lm = "assert"
                    THEN load_result' = Panic /\ UNCHANGED <<into_mem, loader>>
                    ELSE IF lm = "yes" /\ filesize.v > 0 /\ (filesize.v > vmsize.v \/ IsNone(src))
                    THEN /\ load_result' = Panic            \* assert!(filesize <= vmsize), bytes[..]
                         /\ into_mem' = reserved
                         /\ UNCHANGED loader
                    ELSE /\ into_mem' = IF lm = "no" THEN into_mem
                                        ELSE IF filesize.v > 0
                                        THEN copy_into(reserved, vmaddr.v, src.v)
                                        ELSE reserved
                         /\ loader' = [loader EXCEPT !.all_sections = @ \o cmd.sections]
                         /\ UNCHANGED load_result

\* LoadCommand::EncryptionInfo
EncryptionInfo(cmd) ==
    /\ cmd.cmd = "EncryptionInfo"
    /\ NextCommand(cmd)
    /\ load_result' =
         IF cmd.id # 0
         THEN Err("The executable is encrypted. touchHLE can't run encrypted apps!")
         ELSE load_result
    /\ UNCHANGED <<into_mem, loader>>

\* LoadCommand::LoadDyLib
LoadDyLib(cmd) ==
    /\ cmd.cmd = "LoadDyLib"
    /\ NextCommand(cmd)
    /\ loader' = [loader EXCEPT !.dynamic_libraries = Append(@, cmd.name)]
    /\ UNCHANGED <<into_mem, load_result>>

\* LoadCommand::DyldInfo (a warning) and every other command
OtherCommand(cmd) ==
    /\ cmd.cmd \in {"DyldInfo", "Uuid"}
    /\ NextCommand(cmd)
    /\ UNCHANGED <<into_mem, loader, load_result>>

\* variant: any symbol named start gives the entry point
is_start_symbol_any_kind(sym) == sym.name = Some("start")

\* the pattern  Symbol::Defined { name: Some("start"), entry, .. }
is_start_symbol(sym) == sym.kind = "Defined" /\ sym.name = Some("start")

\* The walk of SymbolIter over n symbols from file offset off; entry is the
\* entry point found so far.  ok = FALSE when entry.try_into().unwrap() panics.
RECURSIVE walk_symbols(_, _, _)
walk_symbols(off, n, entry) ==
    IF n = 0 \/ IsNone(sym_at(off)) THEN [ok |-> TRUE, entry |-> entry]
    ELSE LET sym == sym_at(off).v
         IN  IF sym.kind = "Debug" THEN walk_symbols(off + 12, n - 1, entry)     \* continue
             ELSE IF is_start_symbol(sym)
             THEN IF IsNone(try_into_u32(sym.entry)) THEN [ok |-> FALSE, entry |-> entry]
                  ELSE walk_symbols(off + 12, n - 1, Some(try_into_u32(sym.entry).v))
             ELSE walk_symbols(off + 12, n - 1, entry)

\* variant: the first table recorded stays in force
sym_tab_info_first(prev, cmd) ==
    IF IsSome(prev) THEN prev
    ELSE Some([symoff |-> cmd.symoff, nsyms |-> cmd.nsyms,
               stroff |-> cmd.stroff, strsize |-> cmd.strsize])

\* sym_tab_info = Some((symoff, nsyms, stroff, strsize))
sym_tab_info_of(prev, cmd) ==
    Some([symoff |-> cmd.symoff, nsyms |-> cmd.nsyms,
          stroff |-> cmd.stroff, strsize |-> cmd.strsize])

\* LoadCommand::SymTab
SymTab(cmd) ==
    /\ cmd.cmd = "SymTab"
    /\ NextCommand(cmd)
    /\ LET r == walk_symbols(cmd.symoff, cmd.nsyms, loader.entry_point_addr)
       IN  /\ loader' = [loader EXCEPT
                           !.sym_tab_info = sym_tab_info_of(@, cmd),
                           !.entry_point_addr = r.entry]
           /\ load_result' = IF r.ok THEN load_result ELSE Panic
    /\ UNCHANGED into_mem

\* the names pushed for the 4-byte chunks of the indirect symbol table
indirect_names(indirectsyms, info) ==
    [j \in 1..(Len(indirectsyms) \div 4) |->
        undef_name(get_sym_by_idx(from_le_bytes(SubSeq(indirectsyms, 4 * j - 3, 4 * j)), info))]

\* variant: the flag bits of the second word are kept
sym_idx_of_unmasked(word) == word

\* u32::from_le_bytes(entry[4..8]) & 0x00ffffff
sym_idx_of(word) == word % 16777216

\* the relocations pushed for the 8-byte chunks of the external relocations
RECURSIVE relocations_of(_, _)
relocations_of(extrels, info) ==
    IF Len(extrels) < 8 THEN << >>
    ELSE LET addr == from_le_bytes(SubSeq(extrels, 1, 4))
             n    == undef_name(get_sym_by_idx(sym_idx_of(from_le_bytes(SubSeq(extrels, 5, 8))), info))
         IN  (IF IsSome(n) THEN << <<addr, n.v>> >> ELSE << >>)       \* else continue
                \o relocations_of(SubSeq(extrels, 9, Len(extrels)), info)

\* LoadCommand::DySymTab
DySymTab(cmd) ==
    /\ cmd.cmd = "DySymTab"
    /\ NextCommand(cmd)
    /\ LET indirectsyms == slice(bytes, cmd.indirectsymoff, cmd.nindirectsyms * 4)
           extrels      == slice(bytes, cmd.extreloff, cmd.nextrel * 8)
           info         == loader.sym_tab_info
       IN  IF \/ IsNone(indirectsyms)                                  \* bytes[..] out of range
              \/ (cmd.nindirectsyms > 0 /\ IsNone(info))                \* sym_tab_info.unwrap()
           THEN load_result' = Panic /\ UNCHANGED loader
           ELSE IF IsNone(extrels) \/ (cmd.nextrel > 0 /\ IsNone(info))
           THEN /\ load_result' = Panic
                /\ loader' = IF cmd.nindirectsyms = 0 THEN loader
                             ELSE [loader EXCEPT !.indirect_undef_symbols =
                                       @ \o indirect_names(indirectsyms.v, info.v)]
           ELSE /\ loader' =
                     IF IsNone(info) THEN loader
                     ELSE [loader EXCEPT
                             !.indirect_undef_symbols = @ \o indirect_names(indirectsyms.v, info.v),
                             !.external_relocations = @ \o relocations_of(extrels.v, info.v)]
                /\ UNCHANGED load_result
    /\ UNCHANGED into_mem

\* variant: every special section has pointer-sized entries
entry_size_of_pointers(name) ==
    IF name \in {"__symbol_stub4", "__nl_symbol_ptr", "__la_symbol_ptr"} THEN Some(4) ELSE None

\* the match on the section name
entry_size_of(name) ==
    CASE name = "__symbol_stub4" -> Some(12)
      [] name \in {"__nl_symbol_ptr", "__la_symbol_ptr"} -> Some(4)
      [] OTHER -> None

\* indirects.iter_mut().map(|sym| sym.take()): what is left in the sequence
take(indirect, start, count) ==
    [i \in 1..Len(indirect) |->
        IF i > start /\ i <= start + count THEN None ELSE indirect[i]]

\* The map over all_sections from the first of secs on; indirect is the
\* loader's indirect_undef_symbols.  ok = FALSE when an unwrap, the assertion
\* or the slice index panics.
RECURSIVE make_sections(_, _)
make_sections(secs, indirect) ==
    IF secs = << >> THEN [ok |-> TRUE, sections |-> << >>]
    ELSE LET section == Head(secs)
             addr == try_into_u32(section.addr)
             size == try_into_u32(section.size)
             es   == entry_size_of(section.sectname)
         IN  IF IsNone(addr) \/ IsNone(size) THEN [ok |-> FALSE, sections |-> << >>]
             ELSE IF IsNone(es)
             THEN LET rest == make_sections(Tail(secs), indirect)
                  IN  [ok |-> rest.ok,
                       sections |-> <<[name |-> section.sectname, addr |-> addr.v, size |-> size.v,
                                       dyld_indirect_symbol_info |-> None]>> \o rest.sections]
             ELSE IF size.v % es.v # 0 THEN [ok |-> FALSE, sections |-> << >>]
             ELSE LET indirect_start == section.reserved1
                      indirect_count == size.v \div es.v
                      syms == slice(indirect, indirect_start, indirect_count)
                  IN  IF IsNone(syms) THEN [ok |-> FALSE, sections |-> << >>]
                      ELSE LET rest == make_sections(Tail(secs),
                                            take(indirect, indirect_start, indirect_count))
                           IN  [ok |-> rest.ok,
                                sections |->
                                  <<[name |-> section.sectname, addr |-> addr.v, size |-> size.v,
                                     dyld_indirect_symbol_info |->
                                        Some([entry_size |-> es.v,
                                              indirect_undef_symbols |-> syms.v])]>>
                                  \o rest.sections]

\* The tail of load_from_bytes, after the last command: the section records
\* and the MachO returned.
finish_load ==
    /\ load_result.state = "running"
    /\ LET r == make_sections(loader.all_sections, loader.indirect_undef_symbols)
       IN  load_result' =
             IF ~r.ok THEN Panic
             ELSE OkMachO([entry_point_addr |-> loader.entry_point_addr,
                           dynamic_libraries |-> loader.dynamic_libraries,
                           sections |-> r.sections,
                           external_relocations |-> loader.external_relocations])
    /\ UNCHANGED <<macho_file, into_mem, loader, ioVars, buildVars, bundleVars>>

(***************************************************************************)
(* Specification of the Mach-O loader: one file, read command by command.  *)
(***************************************************************************)
Sec(sectname, addr, size, reserved1) ==
    [sectname |-> sectname, addr |-> addr, size |-> size, reserved1 |-> reserved1]
Seg(segname, vmaddr, vmsize, fileoff, filesize, sections) ==
    [cmd |-> "Segment", segname |-> segname, vmaddr |-> vmaddr, vmsize |-> vmsize,
     fileoff |-> fileoff, filesize |-> filesize, sections |-> sections]

TextSeg  == Seg("__TEXT", U64(0, 16), U64(0, 4), 0, U64(0, 2),
                <<Sec("__text", U64(0, 16), U64(0, 2), 0)>>)
DataSeg  == Seg("__DATA", U64(0, 32), U64(0, 12), 4, U64(0, 4),
                <<Sec("__nl_symbol_ptr", U64(0, 32), U64(0, 8), 0),
                  Sec("__la_symbol_ptr", U64(0, 40), U64(0, 4), 2)>>)
\* a segment of another name whose two sections both start at indirect slot 0
StubSeg  == Seg("__STUBS", U64(0, 80), U64(0, 20), 4, U64(0, 2),
                <<Sec("__symbol_stub4", U64(0, 80), U64(0, 12), 0),
                  Sec("__la_symbol_ptr", U64(0, 92), U64(0, 8), 0),
                  Sec("__stub_helper", U64(0, 96), U64(0, 4), 0)>>)
\* a segment over part of the addresses of __TEXT
ObjcSeg  == Seg("__OBJC", U64(0, 17), U64(0, 2), 4, U64(0, 2), << >>)
BssSeg   == Seg("__DATA", U64(0, 48), U64(0, 4), 0, U64(0, 0), << >>)
LinkEdit == Seg("__LINKEDIT", U64(0, 64), U64(0, 8), 8, U64(0, 8), << >>)
PageZero == Seg("__PAGEZERO", U64(0, 0), U64(0, NULL_PAGE_SIZE), 0, U64(0, 0), << >>)
\* a __PAGEZERO that is not where, as large as, or as empty as expected
BadPageZeros ==
    { [PageZero EXCEPT !.vmaddr = U64(0, NULL_PAGE_SIZE)],
      [PageZero EXCEPT !.vmsize = U64(0, 8)],
      [PageZero EXCEPT !.filesize = U64(0, 2)] }
\* a segment with more bytes in the file than addresses in memory
OverSeg  == Seg("__DATA", U64(0, 56), U64(0, 1), 0, U64(0, 2), << >>)
\* segments and sections with a field past 32 bits
WideSegs ==
    { [TextSeg EXCEPT !.vmaddr = U64(1, 16)],
      [TextSeg EXCEPT !.vmsize = U64(1, 4)],
      [TextSeg EXCEPT !.filesize = U64(1, 2)],
      [TextSeg EXCEPT !.sections = <<Sec("__text", U64(1, 16), U64(0, 2), 0)>>],
      [TextSeg EXCEPT !.sections = <<Sec("__text", U64(0, 16), U64(1, 2), 0)>>] }
SegmentCommands ==
    {TextSeg, DataSeg, StubSeg, ObjcSeg, BssSeg, OverSeg, LinkEdit, PageZero}
        \cup BadPageZeros \cup WideSegs

SymTabCmd(symoff, nsyms) ==
    [cmd |-> "SymTab", symoff |-> symoff, nsyms |-> nsyms, stroff |-> 400, strsize |-> 40]
SymTabCommands == {SymTabCmd(100, 5), SymTabCmd(200, 2), SymTabCmd(300, 1)}
DySymTabCmd(indirectsymoff, nindirectsyms, extreloff, nextrel) ==
    [cmd |-> "DySymTab", indirectsymoff |-> indirectsymoff, nindirectsyms |-> nindirectsyms,
     extreloff |-> extreloff, nextrel |-> nextrel]
DySymTabCommands == {DySymTabCmd(8, 4, 24, 4), DySymTabCmd(0, 0, 0, 0)}
EncryptionCommands == {[cmd |-> "EncryptionInfo", id |-> 0], [cmd |-> "EncryptionInfo", id |-> 1]}
DyLibCommands == {[cmd |-> "LoadDyLib", name |-> "libSystem.B.dylib"]}
OtherCommands == {[cmd |-> "DyldInfo"], [cmd |-> "Uuid"]}

FileKinds == {"unparseable", "MachFile", "FatFile", "ArFile", "SymDef"}
CpuTypes  == {"CPU_TYPE_ARM", "CPU_TYPE_X86"}

InitMachO == IdleIo /\ IdleBuild /\ IdleBundle /\ IdleMachO

NextMachO ==
    \/ \E kind \in FileKinds, cputype \in CpuTypes, be \in BOOLEAN, b64 \in BOOLEAN :
          load_from_bytes(kind, cputype, be, b64)
    \/ \E cmd \in SegmentCommands : Segment(cmd)
    \/ \E cmd \in SymTabCommands : SymTab(cmd)
    \/ \E cmd \in DySymTabCommands : DySymTab(cmd)
    \/ \E cmd \in EncryptionCommands : EncryptionInfo(cmd)
    \/ \E cmd \in DyLibCommands : LoadDyLib(cmd)
    \/ \E cmd \in OtherCommands : OtherCommand(cmd)
    \/ finish_load

SpecMachO == InitMachO /\ [][NextMachO]_vars

(***************************************************************************)
(* Properties of the POSIX I/O shim                                        *)
(***************************************************************************)
IsCall(l, ops) == l.op \in ops /\ ~l.fatal
\* slot indices (0-based) of the empty slots of a table
EmptySlots(fs) == {i \in 0..(Len(fs) - 1) : IsNone(fs[i + 1])}
LowestFreeOrLen(fs) ==
    IF EmptySlots(fs) = {} THEN Len(fs)
    ELSE CHOOSE i \in EmptySlots(fs) : \A j \in EmptySlots(fs) : i <= j
OpenIds(fs) == {fs[i].v.file.id : i \in {j \in 1..Len(fs) : IsSome(fs[j])}}

\* C1: a successful open returns 3 + i for the lowest-numbered empty slot i, or
\* 3 + (table length) when no slot is empty; after open; open; close(fd1); open
\* (all successful) the third open returns fd1.
C1_LowestFreeSlot ==
    [][(last'.op = "open" /\ last'.backend = "ok" /\ ~last'.fatal) =>
         /\ last'.ret = 3 + LowestFreeOrLen(files)
         /\ mon_reuse.stage = 3 => last'.ret = mon_reuse.a]_vars
C1_Witness ==
    /\ mon_reuse.stage = 4
    /\ last.op = "open" /\ last.ret = mon_reuse.a
    /\ Len(files) = 2

\* C2: from the open that returned fd until close(fd), the slot of fd holds the
\* same host file object, whose offset only operations on fd change; a slot is
\* filled only while empty, by an open that returns its fd with a file no other
\* slot holds; a slot is emptied only by close of its fd and never disappears.
C2_FdStableUntilClose ==
    [][/\ Len(files') >= Len(files)
       /\ \A i \in 1..Len(files) :
            /\ IsSome(files[i]) =>
                 \/ /\ IsNone(files'[i])
                    /\ IsCall(last', {"close"}) /\ last'.fd = i + 2
                 \/ /\ IsSome(files'[i])
                    /\ files'[i].v.file.id = files[i].v.file.id
                    /\ files'[i].v.file.pos # files[i].v.file.pos =>
                         IsCall(last', {"read", "write", "lseek"}) /\ last'.fd = i + 2
            /\ (IsNone(files[i]) /\ IsSome(files'[i])) =>
                 /\ IsCall(last', {"open"}) /\ last'.ret = i + 2
                 /\ files'[i].v.file.id \notin OpenIds(files)
       /\ \A i \in (Len(files) + 1)..Len(files') :
            /\ IsCall(last', {"open"}) /\ last'.ret = i + 2
            /\ IsSome(files'[i]) /\ files'[i].v.file.id \notin OpenIds(files)
       /\ Cardinality(OpenIds(files')) = Cardinality({j \in 1..Len(files') : IsSome(files'[j])})
      ]_vars
C2_Witness ==
    /\ Len(files) = 2 /\ IsSome(files[1]) /\ IsSome(files[2])
    /\ files[1].v.file.id > files[2].v.file.id
    /\ files[2].v.file.pos > 0

\* C3: when open_with_options fails, open returns exactly -1 and the FD table
\* is unchanged; every value a successful open returns is >= 3.
C3_OpenFailure ==
    [][last'.op = "open" =>
         /\ last'.backend = "err" => (~last'.fatal /\ last'.ret = -1 /\ files' = files)
         /\ (last'.backend = "ok" /\ ~last'.fatal) => last'.ret >= 3]_vars
C3_Witness ==
    /\ last.op = "open" /\ last.backend = "err" /\ last.ret = -1
    /\ EmptySlots(files) # {} /\ OpenIds(files) # {}

\* C4: if lseek(fd, 0, SEEK_CUR) returned p and the next operation on fd is a
\* read that returned k >= 0, then the lseek(fd, 0, SEEK_CUR) that follows on
\* fd returns p + k, whatever was done on other FDs in between.
C4_SeekAfterRead ==
    [][(IsCall(last', {"lseek"}) /\ last'.whence = SEEK_CUR /\ last'.offset = 0
          /\ mon_seek.fd = last'.fd /\ mon_seek.stage = 2)
         => last'.ret = mon_seek.exp]_vars
C4_Witness ==
    /\ mon_seek.stage = 3 /\ mon_seek.exp = MaxPos
    /\ last.op = "lseek" /\ last.fd = mon_seek.fd /\ last.ret = MaxPos
    /\ \E j \in 1..Len(files) :
          j + 2 # last.fd /\ IsSome(files[j]) /\ files[j].v.file.pos = 1

\* C5: close of an open fd empties its slot whether sync_all succeeds or not,
\* returns 0 when sync_all succeeded and -1 when it failed, leaves every other
\* slot as it was, and the slot is free for the next open.
C5_CloseReleases ==
    [][(last'.op = "close" /\ last'.fd \in 3..(Len(files) + 2)
          /\ IsSome(files[last'.fd - 2]))
         => /\ ~last'.fatal
            /\ last'.backend \in {"ok", "err"}
            /\ last'.ret = IF last'.backend = "ok" THEN 0 ELSE -1
            /\ Len(files') = Len(files)
            /\ IsNone(files'[last'.fd - 2])
            /\ \A j \in 1..Len(files) : j # last'.fd - 2 => files'[j] = files[j]
            /\ files[last'.fd - 2].v.file.id \notin OpenIds(files')
            /\ (last'.fd - 3) \in EmptySlots(files')]_vars
C5_Witness ==
    /\ last.op = "close" /\ last.backend = "err" /\ last.ret = -1
    /\ last.fd = 3 /\ Len(files) = 2 /\ IsNone(files[1]) /\ IsSome(files[2])

\* the fd has an open file in table fs
FdOpen(fs, fd) == fd \in 3..(Len(fs) + 2) /\ IsSome(fs[fd - 2])

\* bit positions: 0x1 -> 0, 0x2 -> 1, 0x4 -> 2, 0x8 -> 3, 0x100 -> 8, 0x200 -> 9,
\* 0x400 -> 10, 0x800 -> 11
RejectedFlags(fl) ==
    \/ 8 \in Bits(fl)
    \/ 11 \in Bits(fl)
    \/ ~(Bits(fl) \subseteq {0, 1, 2, 3, 8, 9, 10, 11})
    \/ {0, 1} \subseteq Bits(fl)
\* the open options as a function of the flag bits other than O_NONBLOCK
ExpectedOptions(fl) ==
    [read     |-> 0 \notin Bits(fl),
     write    |-> (0 \in Bits(fl)) \/ (1 \in Bits(fl)),
     append   |-> 3 \in Bits(fl),
     create   |-> 9 \in Bits(fl),
     truncate |-> 10 \in Bits(fl)]
ClaimFlagTable ==
    [fl \in FlagArgs |-> [rejected |-> RejectedFlags(fl), options |-> ExpectedOptions(fl)]]

\* the arguments of call l are within what the shim handles, in table fs
ValidCall(fs, l) ==
    \/ l.op = "open" /\ ~ClaimFlagTable[l.flags].rejected /\ l.path_utf8
    \/ l.op \in {"read", "write", "close"} /\ FdOpen(fs, l.fd)
    \/ /\ l.op = "lseek" /\ FdOpen(fs, l.fd)
       /\ l.whence \in {0, 1, 2}
       /\ l.whence = 0 => l.offset >= 0

\* C6 (as stated): every call of open, read, write, lseek and close returns a
\* value to the guest, for every argument value, and never terminates fatally.
C6_NeverFatal == ~last.fatal /\ (last.backend = "err" => last.ret = -1)

\* C6 (amended): a call whose arguments the shim handles (open with accepted
\* flags and a UTF-8 path; read, write, lseek, close on an fd with an open
\* file; lseek with whence 0, 1 or 2 and no negative SEEK_SET offset) returns
\* a value to the guest, and -1 when the collaborator failed.
C6_ReturnsOnValidArgs ==
    [][ValidCall(files, last') =>
         /\ ~last'.fatal
         /\ last'.backend \in {"ok", "err"}
         /\ last'.backend = "err" => last'.ret = -1]_vars
C6_Witness ==
    /\ last.op = "lseek" /\ last.whence = SEEK_END /\ last.backend = "err"
    /\ last.ret = -1 /\ ~last.fatal

\* C7: read, write, lseek or close on an fd whose slot is empty or outside the
\* table (never opened, below 3, or closed and not reopened) terminates
\* fatally, returns no value and leaves every slot as it was; a second
\* close(fd) right after close(fd) is fatal.
C7_UnknownFdFatal ==
    [][/\ (last'.op \in {"read", "write", "lseek", "close"} /\ ~FdOpen(files, last'.fd))
            => (last'.fatal /\ last'.backend = "none" /\ files' = files)
       /\ (IsCall(last, {"close"}) /\ last'.op = "close" /\ last'.fd = last.fd)
            => last'.fatal]_vars
C7_Witness ==
    /\ last.fatal /\ last.op = "close" /\ last.fd = 3
    /\ Len(files) = 2 /\ IsNone(files[1]) /\ IsSome(files[2])

\* C8: open is fatal, before any filesystem call and with the FD table
\* untouched, when flags has O_NOFOLLOW or O_EXCL set, a bit outside
\* {0x3, 0x4, 0x8, 0x100, 0x200, 0x400, 0x800} set, or access mode 3; for all
\* other flags the options passed to the filesystem do not depend on O_NONBLOCK.
C8_RejectedFlagsFatal ==
    [][last'.op = "open" =>
         IF ClaimFlagTable[last'.flags].rejected
         THEN /\ last'.fatal
              /\ ~last'.fs_called /\ last'.backend = "none"
              /\ files' = files
         ELSE /\ last'.path_utf8 => last'.fs_called
              /\ last'.fs_called => last'.options = ClaimFlagTable[last'.flags].options]_vars
C8_Witness ==
    /\ last.op = "open" /\ last.fatal /\ last.flags = O_EXCL + O_CREAT + O_WRONLY
    /\ OpenIds(files) # {}

(***************************************************************************)
(* Properties of the FsNodeBuilder                                         *)
(***************************************************************************)
\* the components of a path: its non-empty parts
NonEmpty(part) == part # << >>
Comps(path) == SelectSeq(split(path), NonEmpty)
ProperPrefix(p, q) == IsPrefix(p, q) /\ p # q
AllDeliveries == pending \cup {delivered[i] : i \in 1..Len(delivered)}
HasDotDot(S) == \E d \in S : \E i \in 1..Len(split(d.path)) : split(d.path)[i] = DotDot

\* pairwise distinct paths, and no file path is a proper prefix of another path
OrderFree(S) ==
    /\ \A d1, d2 \in S : d1 # d2 => Comps(d1.path) # Comps(d2.path)
    /\ \A d1, d2 \in S : d1.kind = "file" => ~ProperPrefix(Comps(d1.path), Comps(d2.path))

\* the tree a set of deliveries describes: every delivered file at its path,
\* every delivered directory, and a directory at every path above them
TreeOf(S) ==
    LET paths == UNION {{SubSeq(Comps(d.path), 1, n) : n \in 0..Len(Comps(d.path))} : d \in S}
                    \cup {<< >>}
    IN  [q \in paths |->
            IF \E d \in S : d.kind = "file" /\ Comps(d.path) = q
            THEN FileNode((CHOOSE d \in S : d.kind = "file" /\ Comps(d.path) = q).node)
            ELSE DirNode]

\* C9: for a set of deliveries with pairwise distinct paths in which no file
\* path is a proper prefix of another delivered path, every order of delivery
\* has the same outcome: the tree holding each delivered node at its path, with
\* every missing parent directory created (or, when a path has a `..`
\* component, the fatal failure).
C9_OrderInsensitive ==
    OrderFree(AllDeliveries) =>
        /\ b_fatal => HasDotDot(AllDeliveries)
        /\ (pending = {} /\ ~b_fatal) =>
              (~HasDotDot(AllDeliveries) /\ root = TreeOf(AllDeliveries))
C9_Witness ==
    /\ pending = {} /\ ~b_fatal /\ Len(delivered) = 3
    /\ OrderFree(AllDeliveries)
    /\ delivered[1].kind = "file" /\ delivered[3].kind = "dir"
    /\ ProperPrefix(Comps(delivered[3].path), Comps(delivered[1].path))
    /\ Len(Comps(delivered[3].path)) > 0
    /\ root = TreeOf(AllDeliveries)

\* the delivery handed to the builder by the step
Delivering(d) == delivered' = Append(delivered, d)
\* some node of the tree is named `..`
HasDotDotNode(tree) == \E q \in DOMAIN tree : \E k \in 1..Len(q) : q[k] = DotDot

\* C11: every add_file or add_directory delivery whose path has a component
\* equal to `..`, at an intermediate or at the final position, fails fatally,
\* and in every builder state no node of the tree is named `..`.
C11_DotDotRejected ==
    [][/\ \A d \in Deliveries : (Delivering(d) /\ HasDotDot({d})) => b_fatal'
       /\ ~HasDotDotNode(root')]_vars
C11_Witness ==
    /\ b_fatal /\ Len(delivered) = 3
    /\ delivered[3] = DirDelivery(<<"/", "a", "/", "..", "/">>)
    /\ delivered[1].kind = "file" /\ ~HasDotDot({delivered[1], delivered[2]})
    /\ <<<<"a">>>> \in DOMAIN root /\ Cardinality(DOMAIN root) >= 3

\* The components of the directory a delivery needs: those of the parent for
\* add_file (the file name is the last component), the whole path's for
\* add_directory.
DirComps(d) ==
    LET c == Comps(d.path)
    IN  IF d.kind = "file" THEN SubSeq(c, 1, Len(c) - 1) ELSE c
\* the delivery needs a directory at a place where the tree holds a file
NeedsDirAtFile(tree, d) ==
    \E k \in 1..Len(DirComps(d)) :
        LET q == SubSeq(DirComps(d), 1, k)
        IN  q \in DOMAIN tree /\ tree[q].kind = "file"

\* C21: a delivery that needs a directory at a path where a file node already
\* exists (an intermediate component, the parent of an add_file path, or the
\* final component of an add_directory path) fails fatally; it never returns
\* normally with the file kept in place of the directory.
C21_FileCollisionFatal ==
    [][\A d \in Deliveries :
          (Delivering(d) /\ NeedsDirAtFile(root, d)) => b_fatal']_vars

\* C25: a delivery that completes discards nothing: every file node of the
\* tree is still at its path afterwards, unless the delivery is an add_file for
\* that very path.
C25_NothingDiscarded ==
    [][\A d \in Deliveries :
          (Delivering(d) /\ ~b_fatal') =>
              \A q \in DOMAIN root :
                  (root[q].kind = "file" /\ ~(d.kind = "file" /\ Comps(d.path) = q))
                      => (q \in DOMAIN root' /\ root'[q] = root[q])]_vars

(***************************************************************************)
(* Properties of the Mach-O loader                                         *)
(***************************************************************************)
Commands == macho_file.commands
CommandsOf(kind) == {p \in 1..Len(Commands) : Commands[p].cmd = kind}
Loaded == load_result.state = "ok"
BadHeader(f) ==
    \/ f.kind \in {"unparseable", "FatFile", "ArFile", "SymDef"}
    \/ f.cputype # "CPU_TYPE_ARM" \/ f.is_bigend \/ f.is_64bit

\* C14: an unparseable file, a fat file, an archive or symbol-definition file,
\* a non-ARM, big-endian or 64-bit file, and an encrypted file each make
\* load_from_bytes return Err with a message, never abort.
C14_FormatFailuresReturnErr ==
    /\ (macho_file.kind # "" /\ BadHeader(macho_file)) =>
           (load_result.state = "err" /\ load_result.msg # "")
    /\ (\E p \in CommandsOf("EncryptionInfo") : Commands[p].id # 0) =>
           (load_result.state = "err" /\ load_result.msg # "")

\* the symbols a SymTab command covers, in table order
TableOf(cmd) == [i \in 1..cmd.nsyms |-> nlist[cmd.symoff + 12 * (i - 1)]]
IsDefinedStart(sym) == sym.kind = "Defined" /\ sym.name = Some("start")
\* the places <<command, symbol>> of the Defined symbols named start
StartPlaces ==
    {pl \in CommandsOf("SymTab") \X (1..5) :
        pl[2] <= Commands[pl[1]].nsyms /\ IsDefinedStart(TableOf(Commands[pl[1]])[pl[2]])}
LastStartPlace ==
    CHOOSE pl \in StartPlaces :
        \A o \in StartPlaces : o[1] < pl[1] \/ (o[1] = pl[1] /\ o[2] <= pl[2])

\* C15: after a successful load entry_point_addr is the n_value of the
\* Defined symbol named `start` of the symbol table (of the last one, when
\* there are several), and absent when no SymTab command has such a symbol;
\* Undefined and Debug symbols named `start` do not set it.
C15_EntryPointIsStart ==
    Loaded =>
        load_result.macho.entry_point_addr =
            IF StartPlaces = {} THEN None
            ELSE Some(TableOf(Commands[LastStartPlace[1]])[LastStartPlace[2]].entry.lo)
C15_Witness ==
    /\ Loaded /\ Len(Commands) = 3
    /\ Commands[1] = SymTabCmd(100, 5) /\ Commands[2] = SymTabCmd(200, 2)
    /\ load_result.macho.entry_point_addr = Some(4660)

\* the Segment commands whose data is loaded
LoadedSegs ==
    {p \in CommandsOf("Segment") : Commands[p].segname \notin {"__PAGEZERO", "__LINKEDIT"}}
\* the addresses [vmaddr, vmaddr + filesize) of segment p
FileRange(p) == {Commands[p].vmaddr.lo + k : k \in 0..(Commands[p].filesize.lo - 1)}
FileByte(p, a) == bytes[Commands[p].fileoff + (a - Commands[p].vmaddr.lo) + 1]
WrittenOnlyInSegments ==
    DOMAIN into_mem.written \subseteq UNION {FileRange(p) : p \in LoadedSegs}

\* C16 (as stated): after a successful load the guest memory of every loaded
\* segment equals its file bytes, for any number and order of Segment
\* commands, and nothing is written outside the loaded segments.
C16_SegmentsHoldFileBytes ==
    Loaded =>
        /\ \A p \in LoadedSegs : \A a \in FileRange(p) :
              a \in DOMAIN into_mem.written /\ into_mem.written[a] = FileByte(p, a)
        /\ WrittenOnlyInSegments

\* C16 (amended): after a successful load every address of a loaded segment
\* that no later loaded segment covers holds the segment's file byte (so all
\* of them do when the segments do not overlap), and nothing is written
\* outside the loaded segments.
C16_LastSegmentWins ==
    Loaded =>
        /\ \A p \in LoadedSegs : \A a \in FileRange(p) :
              (\A q \in LoadedSegs : q > p => a \notin FileRange(q)) =>
                  (a \in DOMAIN into_mem.written /\ into_mem.written[a] = FileByte(p, a))
        /\ WrittenOnlyInSegments
C16_Witness ==
    /\ Loaded /\ Len(Commands) = 3
    /\ Commands[1] = TextSeg /\ Commands[2] = ObjcSeg /\ Commands[3] = LinkEdit
    /\ into_mem.written = (16 :> 11 @@ 17 :> 21 @@ 18 :> 22)
    /\ into_mem.reserved = << <<16, 4>>, <<17, 2>> >>

Sections == load_result.macho.sections
HasInfo(sec) == IsSome(sec.dyld_indirect_symbol_info)

\* C17: in a returned record a section has dyld_indirect_symbol_info exactly
\* when it is named __symbol_stub4 (entry_size 12) or __nl_symbol_ptr or
\* __la_symbol_ptr (entry_size 4); then size % entry_size = 0 and
\* indirect_undef_symbols has size / entry_size elements.
C17_IndirectInfoShape ==
    Loaded =>
        \A i \in 1..Len(Sections) :
            LET sec == Sections[i]
            IN  /\ HasInfo(sec) <=>
                     sec.name \in {"__symbol_stub4", "__nl_symbol_ptr", "__la_symbol_ptr"}
                /\ HasInfo(sec) =>
                     LET info == sec.dyld_indirect_symbol_info.v
                     IN  /\ info.entry_size = IF sec.name = "__symbol_stub4" THEN 12 ELSE 4
                         /\ sec.size % info.entry_size = 0
                         /\ Len(info.indirect_undef_symbols) = sec.size \div info.entry_size
C17_Witness ==
    /\ Loaded /\ Len(Sections) = 3
    /\ Sections[1].name = "__symbol_stub4" /\ HasInfo(Sections[1])
    /\ Sections[1].dyld_indirect_symbol_info.v.entry_size = 12
    /\ Sections[3].name = "__stub_helper" /\ ~HasInfo(Sections[3])
    /\ Len(Sections[2].dyld_indirect_symbol_info.v.indirect_undef_symbols) = 2

\* the SymTab command in force at command p: the last one before it, or 0
SymTabBefore(p) ==
    IF \E q \in CommandsOf("SymTab") : q < p
    THEN CHOOSE q \in CommandsOf("SymTab") : q < p /\ \A o \in CommandsOf("SymTab") : o < p => o <= q
    ELSE 0
\* the name of the Undefined, named symbol with index idx of the table of
\* SymTab command q; absent for any other symbol and for an index past it
ImportName(idx, q) ==
    IF idx < Commands[q].nsyms
          /\ TableOf(Commands[q])[idx + 1].kind = "Undefined"
          /\ IsSome(TableOf(Commands[q])[idx + 1].name)
    THEN TableOf(Commands[q])[idx + 1].name
    ELSE None
\* the symbol indices in the indirect symbol table of the file (at 8)
IndirectTable == <<1, 0, 2, 1073741824>>
\* the <<addr, symbol index>> of the external relocation entries (at 24)
RelocTable == << <<16, 1>>, <<20, 0>>, <<280, 2>>, <<28, 9>> >>
\* the slots of the indirect symbol table the DySymTab commands up to command
\* p have read, each with the SymTab command in force
RECURSIVE SlotsUpTo(_)
SlotsUpTo(p) ==
    IF p = 0 THEN << >>
    ELSE SlotsUpTo(p - 1) \o
         (IF Commands[p].cmd = "DySymTab"
          THEN [j \in 1..Commands[p].nindirectsyms |-> <<IndirectTable[j], SymTabBefore(p)>>]
          ELSE << >>)

\* C18: in a returned record, entry j of a section's indirect_undef_symbols is
\* the name of the symbol of indirect slot reserved1 + j when that symbol is
\* Undefined with a name, and absent otherwise, for every section, also when
\* the slot ranges of several sections overlap.
C18_IndirectNames ==
    Loaded =>
        \A i \in 1..Len(Sections) :
            HasInfo(Sections[i]) =>
                LET syms  == Sections[i].dyld_indirect_symbol_info.v.indirect_undef_symbols
                    slots == SlotsUpTo(Len(Commands))
                    start == loader.all_sections[i].reserved1
                IN  \A j \in 1..Len(syms) :
                        syms[j] = ImportName(slots[start + j][1], slots[start + j][2])

\* the relocations the entries of the DySymTab commands up to command p give
RECURSIVE RelocsUpTo(_)
RelocsUpTo(p) ==
    IF p = 0 THEN << >>
    ELSE RelocsUpTo(p - 1) \o
         (IF Commands[p].cmd = "DySymTab" /\ Commands[p].nextrel > 0
          THEN LET named(e) == IsSome(ImportName(e[2], SymTabBefore(p)))
                   kept == SelectSeq(SubSeq(RelocTable, 1, Commands[p].nextrel), named)
               IN  [k \in 1..Len(kept) |->
                       <<kept[k][1], ImportName(kept[k][2], SymTabBefore(p)).v>>]
          ELSE << >>)

\* C19: external_relocations is, in file order over the nextrel entries at
\* extreloff, the (addr, name) of exactly the entries whose symbol (index in
\* the low 24 bits of the second word) is Undefined with a name; entries with
\* an index >= nsyms or a defined, debug or unnamed symbol are skipped.
C19_ExternalRelocations ==
    Loaded => load_result.macho.external_relocations = RelocsUpTo(Len(Commands))
C19_Witness ==
    /\ Loaded /\ Len(Commands) = 2
    /\ Commands[1] = SymTabCmd(100, 5) /\ Commands[2] = DySymTabCmd(8, 4, 24, 4)
    /\ load_result.macho.external_relocations = << <<16, "_malloc">>, <<280, "_free">> >>

IsWide(v) == v.hi > 0
WideSegment(c) == IsWide(c.vmaddr) \/ IsWide(c.vmsize) \/ IsWide(c.filesize)
WideSection(c) == \E k \in 1..Len(c.sections) : IsWide(c.sections[k].addr) \/ IsWide(c.sections[k].size)
WideStart(c) == \E k \in 1..c.nsyms : IsDefinedStart(TableOf(c)[k]) /\ IsWide(TableOf(c)[k].entry)

\* C20: a Segment whose vmaddr, vmsize or filesize, or a `start` symbol whose
\* entry address, does not fit 32 bits makes the load fail at that command; a
\* section whose addr or size does not fit makes it fail before a record is
\* returned; a returned record carries the full values.
C20_NoSilentTruncation ==
    /\ \A p \in CommandsOf("Segment") : WideSegment(Commands[p]) => load_result.state = "panic"
    /\ \A p \in CommandsOf("SymTab") : WideStart(Commands[p]) => load_result.state = "panic"
    /\ \A p \in CommandsOf("Segment") : WideSection(Commands[p]) => ~Loaded
    /\ Loaded =>
          /\ Len(Sections) = Len(loader.all_sections)
          /\ \A i \in 1..Len(Sections) :
                /\ U64(0, Sections[i].addr) = loader.all_sections[i].addr
                /\ U64(0, Sections[i].size) = loader.all_sections[i].size
          /\ \A v \in {Commands[p].vmaddr : p \in LoadedSegs} : ~IsWide(v)
C20_Witness ==
    /\ load_result.state = "panic" /\ Len(Commands) = 2
    /\ Commands[1] = BssSeg /\ Commands[2].cmd = "Segment"
    /\ WideSection(Commands[2]) /\ IsWide(Commands[2].sections[1].size)
    /\ Len(into_mem.reserved) = 2

\* the step reads load command c
Reading(c) == macho_file'.commands = Append(macho_file.commands, c)
PageZeroAsExpected(c) ==
    c.vmaddr.lo = 0 /\ c.vmsize.lo = NULL_PAGE_SIZE /\ c.filesize.lo = 0
\* guest memory after the file bytes of segment c have been copied to vmaddr
WrittenAfterCopy(c) ==
    LET to == {c.vmaddr.lo + k : k \in 0..(c.filesize.lo - 1)}
    IN  /\ DOMAIN into_mem'.written = DOMAIN into_mem.written \cup to
        /\ \A a \in to : into_mem'.written[a] = bytes[c.fileoff + (a - c.vmaddr.lo) + 1]
        /\ \A a \in DOMAIN into_mem.written \ to : into_mem'.written[a] = into_mem.written[a]

\* C22: a Segment named __PAGEZERO or __LINKEDIT causes no reserve and no write
\* (and __PAGEZERO is fatal unless vmaddr = 0, vmsize = NULL_PAGE_SIZE and
\* filesize = 0); every other Segment causes exactly one reserve(vmaddr,
\* vmsize), a copy of its file bytes iff filesize > 0, and is fatal when
\* filesize > vmsize and filesize > 0.
C22_SegmentLoadPolicy ==
    [][\A c \in SegmentCommands : (Reading(c) /\ ~WideSegment(c)) =>
          IF c.segname \in {"__PAGEZERO", "__LINKEDIT"}
          THEN /\ into_mem' = into_mem
               /\ (load_result'.state = "panic")
                      <=> (c.segname = "__PAGEZERO" /\ ~PageZeroAsExpected(c))
          ELSE /\ into_mem'.reserved =
                      Append(into_mem.reserved, <<c.vmaddr.lo, c.vmsize.lo>>)
               /\ (c.filesize.lo > 0 /\ c.filesize.lo > c.vmsize.lo)
                      => load_result'.state = "panic"
               /\ IF c.filesize.lo > 0 /\ load_result'.state # "panic"
                  THEN WrittenAfterCopy(c)
                  ELSE into_mem'.written = into_mem.written]_vars
C22_Witness ==
    /\ load_result.state = "running"
    /\ Commands = <<PageZero, DataSeg, LinkEdit>>
    /\ into_mem.reserved = <<<<32, 12>>>>
    /\ DOMAIN into_mem.written = 32..35

\* C23: every validation, the not-encrypted check included, is settled before
\* guest memory is touched: whenever load_from_bytes returns an error, nothing
\* has been reserved and nothing written, wherever the EncryptionInfo command
\* sits among the load commands.
C23_ErrLeavesMemoryUntouched ==
    load_result.state = "err" =>
        (into_mem.reserved = << >> /\ DOMAIN into_mem.written = {})

\* C26: the indirect symbols and external relocations of a DySymTab command
\* are resolved against the table of the most recent SymTab command before it
\* in the load-command list, and a SymTab read later changes no name already
\* recorded; a DySymTab with nindirectsyms > 0 or nextrel > 0 read before any
\* SymTab makes the load fail fatally.
C26_ResolvedAgainstLatestSymTab ==
    /\ load_result.state = "running" =>
          LET slots == SlotsUpTo(Len(Commands))
          IN  /\ loader.indirect_undef_symbols =
                    [j \in 1..Len(slots) |-> ImportName(slots[j][1], slots[j][2])]
              /\ loader.external_relocations = RelocsUpTo(Len(Commands))
    /\ \A p \in CommandsOf("DySymTab") :
          (SymTabBefore(p) = 0 /\ (Commands[p].nindirectsyms > 0 \/ Commands[p].nextrel > 0))
              => load_result.state = "panic"
C26_Witness ==
    /\ load_result.state = "running"
    /\ Commands = <<SymTabCmd(100, 5), DySymTabCmd(8, 4, 24, 4), SymTabCmd(200, 2)>>
    /\ loader.indirect_undef_symbols = <<Some("_malloc"), None, Some("_free"), None>>
    /\ Len(loader.external_relocations) = 2
    /\ loader.sym_tab_info.v.symoff = 200

(***************************************************************************)
(* Properties of the bundle mount                                          *)
(***************************************************************************)
\* position of the separator that ends the second component of a name that
\* starts with Payload/ , or 0
AppSlash(name) ==
    IF Len(name) >= 3 /\ name[1] = "Payload" /\ name[2] = "/" /\ \E j \in 3..Len(name) : name[j] = "/"
    THEN CHOOSE j \in 3..Len(name) : name[j] = "/" /\ \A k \in 3..(j - 1) : name[k] # "/"
    ELSE 0
\* the name has the form Payload/<X>.app/...
HasAppForm(name) == AppSlash(name) > 0 /\ name[AppSlash(name) - 1] = ".app"
\* index of the first entry of that form, or 0
FirstApp(archive) ==
    IF \E i \in 1..Len(archive) : HasAppForm(archive[i])
    THEN CHOOSE i \in 1..Len(archive) :
            HasAppForm(archive[i]) /\ \A j \in 1..(i - 1) : ~HasAppForm(archive[j])
    ELSE 0
\* the file and the entries open_ipa had to read could be read
IpaReadable(l, archive) ==
    /\ l.host = "ok"
    /\ \/ l.io_err_at = 0
       \/ FirstApp(archive) > 0 /\ l.io_err_at > FirstApp(archive)

\* C12: when the archive can be read, open_ipa returns Payload/<X>.app, without
\* a trailing separator, taken from the first entry in index order whose name
\* has the form Payload/<X>.app/... (entries before it are skipped), and fails
\* with `no app bundle found in the IPA archive` when no entry has this form.
C12_FirstAppEntry ==
    [][(ipa_last'.op = "open_ipa" /\ IpaReadable(ipa_last', zip)) =>
          IF FirstApp(zip) > 0
          THEN /\ bundle'.state = "zip"
               /\ bundle'.bundle_path = SubSeq(zip[FirstApp(zip)], 1, AppSlash(zip[FirstApp(zip)]) - 1)
               /\ bundle'.bundle_path[Len(bundle'.bundle_path)] # "/"
          ELSE /\ bundle'.state = "err"
               /\ bundle'.msg = "no app bundle found in the IPA archive"]_vars
C12_Witness ==
    /\ ipa_last.op = "open_ipa" /\ ipa_last.host = "ok" /\ ipa_last.io_err_at = 3
    /\ Len(zip) = 3 /\ FirstApp(zip) = 2 /\ HasAppForm(zip[3])
    /\ zip[1] = <<"Payload", "/", "F", ".app", ".dSYM", "/", "y">>
    /\ bundle.state = "zip" /\ bundle.bundle_path = <<"Payload", "/", "G", ".app">>

\* C13: every open() of a ref of the tree (when the archive can be read)
\* returns a fresh IpaFile with cursor 0 whose buffer is the decompressed content
\* of the entry at the ref's index, whatever opens, reads and seeks came
\* before; no step changes the buffer of an IpaFile or the earlier IpaFiles'
\* cursors on an open.
C13_OpenFreshContent ==
    [][/\ (ipa_last'.op = "IpaFileRef_open" /\ ipa_last'.io = "ok") =>
            /\ ~b_fatal'
            /\ Len(ipa_files') = Len(ipa_files) + 1
            /\ ipa_files'[Len(ipa_files')] =
                   [index |-> ipa_last'.index, buf |-> EntryContent(zip[ipa_last'.index + 1]),
                    pos |-> 0]
            /\ \A h \in 1..Len(ipa_files) : ipa_files'[h] = ipa_files[h]
       /\ \A h \in 1..Len(ipa_files) :
            /\ Len(ipa_files') >= h
            /\ ipa_files'[h].buf = ipa_files[h].buf
            /\ ipa_files'[h].index = ipa_files[h].index]_vars
C13_Witness ==
    /\ ipa_last.op = "IpaFileRef_open" /\ ipa_last.io = "ok" /\ ~b_fatal
    /\ Len(ipa_files) = 2
    /\ ipa_files[1].pos = 1 /\ ipa_files[1].buf = <<7, 7>>
    /\ ipa_files[2] = [index |-> 0, buf |-> <<8>>, pos |-> 0]
    /\ zip[2] = <<"Payload", "/", "F", ".app", ".dSYM", "/", "y">>

\* C24: the shared ZIP handle has at most one exclusive borrower at a time and
\* no borrow outlives the call that took it: into_fs_node and every
\* IpaFileRef::open have released their borrow when they return, so no open()
\* made after into_fs_node returned fails on an already-borrowed handle.
C24_BorrowsReleased ==
    /\ archive_borrow = {}
    /\ ipa_last.op = "IpaFileRef_open" => ipa_last.io # "already_borrowed"
C24_Witness ==
    /\ ipa_last.op = "IpaFileRef_open" /\ ipa_last.io = "ok" /\ ~b_fatal
    /\ bundle.state = "moved" /\ IsSome(fs_node)
    /\ Len(ipa_files) = 2 /\ ipa_files[1].index = ipa_files[2].index
    /\ archive_borrow = {}

\* the entry lies under the bundle directory: its components start with those
\* of bundle_path
UnderBundle(name, bundle_path) == IsPrefix(Comps(bundle_path), Comps(name))
\* the components of the entry after those of bundle_path
RelComps(name, bundle_path) ==
    SubSeq(Comps(name), Len(Comps(bundle_path)) + 1, Len(Comps(name)))

\* C10: the tree into_fs_node returns holds a node for exactly the archive
\* entries under bundle_path, each at the path of its components after
\* bundle_path, holds no node for any other entry, and no node is named `..`.
C10_ExactlyBundleEntries ==
    IsSome(fs_node) =>
        LET tree == fs_node.v
            bp   == bundle.bundle_path
        IN  /\ \A i \in 1..Len(zip) :
                 UnderBundle(zip[i], bp) =>
                    /\ RelComps(zip[i], bp) \in DOMAIN tree
                    /\ tree[RelComps(zip[i], bp)] =
                         IF is_dir(zip[i]) THEN DirNode ELSE FileNode(i - 1)
            /\ \A q \in DOMAIN tree :
                 \/ q = << >>
                 \/ \E i \in 1..Len(zip) :
                       UnderBundle(zip[i], bp) /\ IsPrefix(q, RelComps(zip[i], bp))
            /\ \A q \in DOMAIN tree : \A k \in 1..Len(q) : q[k] # DotDot

====
